---- MODULE Spec2Model ----
(***************************************************************************)
(* A model of the Game Launcher's discovery engine: the platform scanners  *)
(* (Steam, Epic Games, GOG, Playnite, Xbox, Shortcuts, EA app, Ubisoft     *)
(* Connect), each a SynchronizeGames over an on-disk / registry            *)
(* environment, and the aggregator loadGames that runs the enabled         *)
(* scanners, merges their SynchronizedGames and applies the sort order;    *)
(* and of the handlers launchGame and uninstallGame of a listed game.      *)
(*                                                                         *)
(* Text is modelled in two ways.  Identifiers, paths, labels and commands  *)
(* are TLA+ strings, built with \o exactly where the source builds them    *)
(* with template literals.  Text the source inspects character by          *)
(* character (titles compared by localeCompare or searched by includes,    *)
(* StateFlags read by parseInt, InstallLocation trimmed, JSON text         *)
(* repaired by regular expressions) is a sequence of one-character         *)
(* strings (or of JSON tokens).                                            *)
(***************************************************************************)
EXTENDS Integers, Sequences, FiniteSets, TLC

(***************************************************************************)
(* Bounds of the model.                                                    *)
(***************************************************************************)
MaxManifests == 2

(***************************************************************************)
(* JavaScript values.                                                      *)
(***************************************************************************)
\* undefined / null where the source holds a string (or nothing)
Undefined == "<undefined>"

\* `${x}` for a string-or-undefined x
ToStr(x) == IF x = Undefined THEN "undefined" ELSE x

\* truthiness of a string-or-undefined value
Truthy(x) == x # Undefined /\ x # ""

\* an optional character sequence: null, or the text
None == [some |-> FALSE]

Some(v) == [some |-> TRUE, val |-> v]

\* a || b for a string-or-undefined a
OrElse(a, b) == IF Truthy(a) THEN a ELSE b

RECURSIVE Concat(_)
\* [...a, ...b, ...] for a sequence of sequences
Concat(ss) == IF ss = <<>> THEN <<>> ELSE Head(ss) \o Concat(Tail(ss))

\* the set of the elements of a sequence
Range(s) == {s[i] : i \in DOMAIN s}

RECURSIVE Join(_)
\* the string spelled by a character sequence
Join(cs) == IF cs = <<>> THEN "" ELSE Head(cs) \o Join(Tail(cs))

\* the sequences over S of length at most n
SeqsUpTo(S, n) == UNION {[1..k -> S] : k \in 0..n}

(***************************************************************************)
(* Characters: case folding and the collation of String.localeCompare.     *)
(***************************************************************************)
LowerLetters == <<"a", "b", "c", "d", "e", "f", "g", "h", "i", "j", "k", "l", "m",
                  "n", "o", "p", "q", "r", "s", "t", "u", "v", "w", "x", "y", "z">>

UpperLetters == <<"A", "B", "C", "D", "E", "F", "G", "H", "I", "J", "K", "L", "M",
                  "N", "O", "P", "Q", "R", "S", "T", "U", "V", "W", "X", "Y", "Z">>

Digits == <<"0", "1", "2", "3", "4", "5", "6", "7", "8", "9">>

\* the index of x in the sequence s, 0 when x is not in it
IndexOf(s, x) == IF \E i \in DOMAIN s : s[i] = x
                 THEN CHOOSE i \in DOMAIN s : s[i] = x
                 ELSE 0

IsUpper(c) == IndexOf(UpperLetters, c) # 0

IsLower(c) == IndexOf(LowerLetters, c) # 0

IsDigit(c) == IndexOf(Digits, c) # 0

\* String.prototype.toLowerCase, one character
LowerChar(c) == IF IsUpper(c) THEN LowerLetters[IndexOf(UpperLetters, c)] ELSE c

\* String.prototype.toUpperCase, one character
UpperChar(c) == IF IsLower(c) THEN UpperLetters[IndexOf(LowerLetters, c)] ELSE c

\* String.prototype.toLowerCase on a character sequence
toLowerCase(s) == [i \in DOMAIN s |-> LowerChar(s[i])]

\* String.prototype.includes on character sequences
includes(s, sub) ==
    \E i \in 0..(Len(s) - Len(sub)) : SubSeq(s, i + 1, i + Len(sub)) = sub

\* the primary collation weight of a character: blank, then digits, then
\* letters, upper and lower case alike
PrimaryWeight(c) ==
    IF c = " " THEN 1
    ELSE IF IsDigit(c) THEN 10 + IndexOf(Digits, c)
    ELSE IF IsLower(c) THEN 100 + IndexOf(LowerLetters, c)
    ELSE IF IsUpper(c) THEN 100 + IndexOf(UpperLetters, c)
    ELSE 2

\* the case weight of a character: lower case before upper case
CaseWeight(c) == IF IsUpper(c) THEN 1 ELSE 0

RECURSIVE LexCompare(_, _)
\* the lexicographic comparison of two sequences of numbers: -1, 0 or 1
LexCompare(a, b) ==
    IF a = <<>> /\ b = <<>> THEN 0
    ELSE IF a = <<>> THEN -1
    ELSE IF b = <<>> THEN 1
    ELSE IF Head(a) < Head(b) THEN -1
    ELSE IF Head(a) > Head(b) THEN 1
    ELSE LexCompare(Tail(a), Tail(b))

\* a.localeCompare(b): the letters first, the case of the letters second
localeCompare(a, b) ==
    LET primary == LexCompare([i \in DOMAIN a |-> PrimaryWeight(a[i])],
                              [i \in DOMAIN b |-> PrimaryWeight(b[i])])
    IN  IF primary # 0 THEN primary
        ELSE LexCompare([i \in DOMAIN a |-> CaseWeight(a[i])],
                        [i \in DOMAIN b |-> CaseWeight(b[i])])

(***************************************************************************)
(* interfaces.ts: the Game record.  title is a character sequence; id,     *)
(* platform, iconPath, launchCommand and uninstallCommand are strings      *)
(* (iconPath and uninstallCommand may be Undefined).                       *)
(***************************************************************************)
Game(id, title, platform, iconPath, launchCommand, uninstallCommand) ==
    [id |-> id, title |-> title, platform |-> platform, iconPath |-> iconPath,
     launchCommand |-> launchCommand, uninstallCommand |-> uninstallCommand]

\* what a SynchronizeGames call leaves: whether it raised, and the engine's
\* SynchronizedGames afterwards
SyncResult(raised, games) == [raised |-> raised, games |-> games]

(***************************************************************************)
(* platforms/steam/SteamSyncEngine.ts                                      *)
(*                                                                         *)
(* A manifest file is [readable, appid, name, StateFlags, icon]: whether   *)
(* readFileSync succeeds, what extractVdfValue finds for each key (appid:  *)
(* a string or Undefined; name and StateFlags: an optional character       *)
(* sequence) and the icon that the registry / executable lookup resolves.  *)
(* The Steam environment is [steamPath, vdfReadable, libraries]: whether   *)
(* an installation is found, whether libraryfolders.vdf can be read, and   *)
(* the manifest files of each library folder, the default steamapps folder *)
(* first.                                                                  *)
(***************************************************************************)
SteamPlatformName == "Steam"

IsWhitespace(c) == c = " "

RECURSIVE SkipWhitespace(_)
SkipWhitespace(s) ==
    IF s # <<>> /\ IsWhitespace(Head(s)) THEN SkipWhitespace(Tail(s)) ELSE s

RECURSIVE DigitPrefix(_)
\* the longest prefix of s made of decimal digits
DigitPrefix(s) ==
    IF s # <<>> /\ IsDigit(Head(s)) THEN <<Head(s)>> \o DigitPrefix(Tail(s)) ELSE <<>>

HexDigits == Digits \o <<"a", "b", "c", "d", "e", "f">>

IsHexDigit(c) == IndexOf(HexDigits, LowerChar(c)) # 0

RECURSIVE HexPrefix(_)
\* the longest prefix of s made of hexadecimal digits
HexPrefix(s) ==
    IF s # <<>> /\ IsHexDigit(Head(s)) THEN <<Head(s)>> \o HexPrefix(Tail(s)) ELSE <<>>

RECURSIVE PositionalValue(_, _, _)
\* the number written by the digits ds in a radix, after the value acc read
\* so far
PositionalValue(ds, radix, acc) ==
    IF ds = <<>> THEN acc
    ELSE PositionalValue(Tail(ds), radix,
                         radix * acc + (IndexOf(HexDigits, LowerChar(Head(ds))) - 1))

NaN == [nan |-> TRUE]

\* parseInt(s) without a radix: leading blanks, an optional sign, then the
\* longest run of digits, hexadecimal after a 0x prefix and decimal
\* otherwise; NaN when there is no digit
parseInt(s) ==
    LET t == SkipWhitespace(s)
        negative == t # <<>> /\ Head(t) = "-"
        u == IF t # <<>> /\ Head(t) \in {"-", "+"} THEN Tail(t) ELSE t
        hex == Len(u) >= 2 /\ u[1] = "0" /\ u[2] \in {"x", "X"}
        ds == IF hex THEN HexPrefix(SubSeq(u, 3, Len(u))) ELSE DigitPrefix(u)
        magnitude == PositionalValue(ds, IF hex THEN 16 ELSE 10, 0)
    IN  IF ds = <<>> THEN NaN
        ELSE [nan |-> FALSE, val |-> IF negative THEN 0 - magnitude ELSE magnitude]

\* n || 0 for a number-or-NaN n
NumberOrZero(n) == IF n.nan THEN 0 ELSE n.val

\* (a & 4): bit 2 of the two's complement of a.  The operands of & are
\* reduced modulo 2^32 first, which leaves bit 2 as it is
BitAnd4(a) == IF ((a % 8) \div 4) = 1 THEN 4 ELSE 0

\* parseAppManifest: null when the file cannot be read or has no appid or no
\* name; a missing or empty StateFlags reads as "0"
parseAppManifest(file) ==
    IF ~file.readable THEN None
    ELSE IF ~Truthy(file.appid) \/ ~file.name.some \/ file.name.val = <<>> THEN None
    ELSE Some([appid |-> file.appid,
               name |-> file.name.val,
               StateFlags |-> IF file.StateFlags.some /\ file.StateFlags.val # <<>>
                              THEN file.StateFlags.val
                              ELSE <<"0">>,
               icon |-> file.icon])

\* a scanner that takes any non-zero StateFlags for "installed"
isGameInstalledAnyFlag(manifest) ==
    NumberOrZero(parseInt(manifest.StateFlags)) # 0

\* isGameInstalled: StateFlags & 4 means fully installed
isGameInstalled(manifest) ==
    LET stateFlags == NumberOrZero(parseInt(manifest.StateFlags))
    IN  BitAnd4(stateFlags) # 0

excludeNames ==
    << <<"S","t","e","a","m","w","o","r","k","s"," ","C","o","m","m","o","n"," ",
         "R","e","d","i","s","t","r","i","b","u","t","a","b","l","e","s">>,
       <<"S","t","e","a","m"," ","L","i","n","u","x"," ","R","u","n","t","i","m","e">>,
       <<"P","r","o","t","o","n">>,
       <<"D","i","r","e","c","t","X">>,
       <<"V","i","s","u","a","l"," ","C","+","+">>,
       <<"M","i","c","r","o","s","o","f","t"," ","V","i","s","u","a","l"," ","C","+","+">>,
       <<".","N","E","T"," ","F","r","a","m","e","w","o","r","k">>,
       <<"C","o","m","m","o","n"," ","R","e","d","i","s","t","r","i","b","u","t","a","b","l","e","s">> >>

\* isActualGame: no denylisted name is a substring of the lower-cased name
isActualGame(manifest) ==
    LET gameName == toLowerCase(manifest.name)
    IN  ~\E i \in DOMAIN excludeNames : includes(gameName, toLowerCase(excludeNames[i]))

\* createGameFromManifest
createGameFromManifest(manifest) ==
    Game("steam-" \o manifest.appid, manifest.name, SteamPlatformName, manifest.icon,
         "steam://launch/" \o manifest.appid, "steam://uninstall/" \o manifest.appid)

RECURSIVE scanManifests(_, _, _)
\* the loop of scanLibraryFolder over the manifest files of one library:
\* [games, seen] after the files, given the games and the seen appids so far
scanManifests(files, games, seenAppIds) ==
    IF files = <<>> THEN [games |-> games, seen |-> seenAppIds]
    ELSE LET manifest == parseAppManifest(Head(files))
             take == /\ manifest.some
                     /\ isGameInstalled(manifest.val)
                     /\ isActualGame(manifest.val)
                     /\ manifest.val.appid \notin seenAppIds
         IN  IF take
             THEN scanManifests(Tail(files),
                                Append(games, createGameFromManifest(manifest.val)),
                                seenAppIds \cup {manifest.val.appid})
             ELSE scanManifests(Tail(files), games, seenAppIds)

RECURSIVE scanLibrariesFreshSeen(_, _, _)
\* a loop in which every library folder starts with no appid seen
scanLibrariesFreshSeen(libraries, games, seenAppIds) ==
    IF libraries = <<>> THEN games
    ELSE LET r == scanManifests(Head(libraries), <<>>, {})
         IN  scanLibrariesFreshSeen(Tail(libraries), games \o r.games, {})

RECURSIVE scanLibraries(_, _, _)
\* the loop of findAllGames over the library folders, sharing seenAppIds
scanLibraries(libraries, games, seenAppIds) ==
    IF libraries = <<>> THEN games
    ELSE LET r == scanManifests(Head(libraries), <<>>, seenAppIds)
         IN  scanLibraries(Tail(libraries), games \o r.games, r.seen)

\* findAllGames and SynchronizeGames: no installation gives no game; a
\* libraryfolders.vdf that cannot be read makes the scan raise, with
\* SynchronizedGames reset to []
SteamSynchronizeGames(env) ==
    IF ~env.steamPath THEN SyncResult(FALSE, <<>>)
    ELSE IF ~env.vdfReadable THEN SyncResult(TRUE, <<>>)
    ELSE SyncResult(FALSE, scanLibraries(env.libraries, <<>>, {}))

(***************************************************************************)
(* JavaScript values of any type, as read from JSON: undefined (a missing  *)
(* key), a boolean, a number, or a string (a character sequence).          *)
(***************************************************************************)
JsUndefined == [t |-> "undefined"]

JsBool(b) == [t |-> "boolean", b |-> b]

JsNum(n) == [t |-> "number", n |-> n]

JsStr(cs) == [t |-> "string", s |-> cs]

\* !!v
JsTruthy(v) ==
    CASE v.t = "undefined" -> FALSE
      [] v.t = "boolean" -> v.b
      [] v.t = "number" -> v.n # 0
      [] v.t = "string" -> v.s # <<>>

\* the characters String.prototype.trim and the regular expression \s remove
\* (the byte-order mark is one of them)
IsTrimmed(c) == c \in {" ", "BOM"}

RECURSIVE TrimStart(_)
TrimStart(s) == IF s # <<>> /\ IsTrimmed(Head(s)) THEN TrimStart(Tail(s)) ELSE s

RECURSIVE TrimEnd(_)
TrimEnd(s) ==
    IF s # <<>> /\ IsTrimmed(s[Len(s)]) THEN TrimEnd(SubSeq(s, 1, Len(s) - 1)) ELSE s

\* String.prototype.trim
trim(s) == TrimEnd(TrimStart(s))

(***************************************************************************)
(* platforms/epic/EpicSyncEngine.ts and models/EpicGame.ts                 *)
(*                                                                         *)
(* The text of a .item file is a sequence of tokens: "{", "}", ",", "kv"   *)
(* (one "key": value member), " " (JSON white space), "BOM" (a byte-order  *)
(* mark) and "x" (any other stray character).  A file is [readable,        *)
(* content, jObject, exeIcon]: whether readFileSync succeeds, the text,    *)
(* the object the text denotes when it parses, and the executable path     *)
(* that exists on disk (or Undefined).                                     *)
(***************************************************************************)
EpicPlatformName == "Epic Games"

\* s without the tokens in drop
Without(s, drop) == SelectSeq(s, LAMBDA c : c \notin drop)

RECURSIVE IsMemberList(_)
\* kv ("," kv)*
IsMemberList(s) ==
    \/ s = <<"kv">>
    \/ /\ Len(s) >= 3
       /\ s[1] = "kv"
       /\ s[2] = ","
       /\ IsMemberList(SubSeq(s, 3, Len(s)))

\* JSON.parse succeeds on the text: white space apart, "{" members "}"
JSONparses(content) ==
    LET s == Without(content, {" "})
    IN  /\ Len(s) >= 2
        /\ s[1] = "{"
        /\ s[Len(s)] = "}"
        /\ LET inner == SubSeq(s, 2, Len(s) - 1)
           IN  inner = <<>> \/ IsMemberList(inner)

\* the length of the longest prefix of s made of \s characters
RECURSIVE SpaceRun(_)
SpaceRun(s) == IF s # <<>> /\ IsTrimmed(Head(s)) THEN 1 + SpaceRun(Tail(s)) ELSE 0

RECURSIVE RemoveTrailingCommas(_)
\* replace(/,(\s*[}\]])/g, '$1')
RemoveTrailingCommas(s) ==
    IF s = <<>> THEN <<>>
    ELSE LET n == SpaceRun(Tail(s))
         IN  IF Head(s) = "," /\ Len(s) >= n + 2 /\ s[n + 2] = "}"
             THEN SubSeq(s, 2, n + 2) \o RemoveTrailingCommas(SubSeq(s, n + 3, Len(s)))
             ELSE <<Head(s)>> \o RemoveTrailingCommas(Tail(s))

RECURSIVE CommaRun(_)
\* the length of the longest prefix of s of the form (\s*,)*
CommaRun(s) ==
    LET n == SpaceRun(s)
    IN  IF Len(s) >= n + 1 /\ s[n + 1] = ","
        THEN n + 1 + CommaRun(SubSeq(s, n + 2, Len(s)))
        ELSE 0

RECURSIVE RemoveDuplicateCommas(_)
\* replace(/,(\s*,)+/g, ',')
RemoveDuplicateCommas(s) ==
    IF s = <<>> THEN <<>>
    ELSE LET n == CommaRun(Tail(s))
         IN  IF Head(s) = "," /\ n > 0
             THEN <<",">> \o RemoveDuplicateCommas(SubSeq(s, n + 2, Len(s)))
             ELSE <<Head(s)>> \o RemoveDuplicateCommas(Tail(s))

\* replace(/,\s*$/, '')
RemoveFinalComma(s) ==
    LET t == TrimEnd(s)
    IN  IF t # <<>> /\ t[Len(t)] = "," THEN SubSeq(t, 1, Len(t) - 1) ELSE s

RECURSIVE DropUntilOpen(_)
\* replace(/^[^{]*/, '')
DropUntilOpen(s) == IF s # <<>> /\ Head(s) # "{" THEN DropUntilOpen(Tail(s)) ELSE s

RECURSIVE DropAfterClose(_)
\* replace(/[^}]*$/, '')
DropAfterClose(s) ==
    IF s # <<>> /\ s[Len(s)] # "}" THEN DropAfterClose(SubSeq(s, 1, Len(s) - 1)) ELSE s

\* a repair pass without the trailing-comma rule
fixMalformedJsonNoTrailing(content) ==
    LET trimmed == trim(content)
        noBom == IF trimmed # <<>> /\ Head(trimmed) = "BOM" THEN Tail(trimmed) ELSE trimmed
    IN  DropAfterClose(DropUntilOpen(RemoveFinalComma(RemoveDuplicateCommas(noBom))))

\* fixMalformedJson: trim, drop a leading byte-order mark, drop commas before
\* a closing brace, collapse runs of commas, drop a final comma, and cut the
\* text to its outermost braces (the quote rule rewrites a text to itself)
fixMalformedJson(content) ==
    LET trimmed == trim(content)
        noBom == IF trimmed # <<>> /\ Head(trimmed) = "BOM" THEN Tail(trimmed) ELSE trimmed
    IN  DropAfterClose(DropUntilOpen(RemoveFinalComma(RemoveDuplicateCommas(
            RemoveTrailingCommas(noBom)))))

\* a model of EpicGame.CreateFromJObject that takes every record
CreateFromJObjectAnyRecord(jObject) ==
    Some(jObject)

\* EpicGame.CreateFromJObject: only create if it's an application
CreateFromJObject(jObject) ==
    IF ~JsTruthy(jObject.bIsApplication) THEN None ELSE Some(jObject)

\* deserializeManifestFile: the EpicGame of a .item file, or null.  A truthy
\* InstallLocation that is no string has no trim method: the TypeError is
\* caught and the file gives null
deserializeManifestFile(itemFile) ==
    IF ~itemFile.readable THEN None
    ELSE IF ~JSONparses(itemFile.content)
            /\ ~JSONparses(fixMalformedJson(itemFile.content)) THEN None
    ELSE LET jObject == itemFile.jObject
         IN  IF ~Truthy(jObject.CatalogItemId) THEN None
             ELSE IF ~jObject.DisplayName.some \/ jObject.DisplayName.val = <<>> THEN None
             ELSE IF ~JsTruthy(jObject.InstallLocation) THEN None
             ELSE IF jObject.InstallLocation.t # "string" THEN None
             ELSE IF trim(jObject.InstallLocation.s) = <<>> THEN None
             ELSE LET game == CreateFromJObject(jObject)
                  IN  IF game.some
                      THEN Some([game |-> game.val, exeIcon |-> itemFile.exeIcon])
                      ELSE None

RECURSIVE GetEpicGamesFromFiles(_)
\* the loop of GetEpicGamesFromMetadata over the .item files
GetEpicGamesFromFiles(files) ==
    IF files = <<>> THEN <<>>
    ELSE LET game == deserializeManifestFile(Head(files))
         IN  (IF game.some THEN <<game.val>> ELSE <<>>) \o GetEpicGamesFromFiles(Tail(files))

\* GetEpicGamesFromMetadata: no manifest directory, or one that cannot be
\* listed, gives no game
GetEpicGamesFromMetadata(env) ==
    IF ~env.manifestsPath \/ ~env.dirReadable THEN <<>>
    ELSE GetEpicGamesFromFiles(env.files)

PrepareRunTask(catalogNamespace, catalogItemId, appName) ==
    "com.epicgames.launcher://apps/" \o ToStr(catalogNamespace) \o "%3A"
        \o ToStr(catalogItemId) \o "%3A" \o ToStr(appName) \o "?action=launch&silent=true"

\* getGameExecutablePath: path.join throws when LaunchExecutable is neither
\* null nor a string
getGameExecutablePathThrows(epicGame) ==
    epicGame.game.LaunchExecutable.t \notin {"undefined", "string"}

\* the Game of one EpicGame, in the loop of SynchronizeGames
EpicGameToGame(epicGame) ==
    Game("epic-" \o ToStr(epicGame.game.AppName), epicGame.game.DisplayName.val,
         EpicPlatformName,
         IF epicGame.game.LaunchExecutable.t = "string" THEN epicGame.exeIcon ELSE Undefined,
         PrepareRunTask(epicGame.game.CatalogNamespace, epicGame.game.CatalogItemId,
                        epicGame.game.AppName),
         Undefined)

\* SynchronizeGames: any error resets SynchronizedGames to [] and is rethrown
EpicSynchronizeGames(env) ==
    LET epicGames == GetEpicGamesFromMetadata(env)
    IN  IF \E i \in DOMAIN epicGames : getGameExecutablePathThrows(epicGames[i])
        THEN SyncResult(TRUE, <<>>)
        ELSE SyncResult(FALSE, [i \in DOMAIN epicGames |-> EpicGameToGame(epicGames[i])])

(***************************************************************************)
(* platforms/gog/GOGSyncEngine.ts                                          *)
(*                                                                         *)
(* The GOG environment is [client, registry, keys]: the path of            *)
(* GalaxyClient.exe (or Undefined), whether the query of the GOG.com\Games *)
(* subtree succeeds, and its subkeys, each [id, queries, gameName, path,   *)
(* pathExists, icon]: the last component of the key, whether the value     *)
(* queries succeed, the gameName (optional) and path (string or Undefined) *)
(* values, whether the path exists, and the icon found in it.              *)
(***************************************************************************)
GOGPlatformName == "GOG Galaxy"

\* parseGameFromRegistry
parseGameFromRegistry(key) ==
    IF ~key.queries THEN None
    ELSE IF ~key.gameName.some \/ key.path = Undefined THEN None
    ELSE IF ~key.pathExists THEN None
    ELSE Some([id |-> key.id, name |-> trim(key.gameName.val), path |-> key.path,
               iconPath |-> key.icon])

RECURSIVE findAllGOGGamesIn(_)
findAllGOGGamesIn(keys) ==
    IF keys = <<>> THEN <<>>
    ELSE LET game == parseGameFromRegistry(Head(keys))
         IN  (IF game.some THEN <<game.val>> ELSE <<>>) \o findAllGOGGamesIn(Tail(keys))

\* findAllGOGGames: a failing registry query gives no game
findAllGOGGames(env) == IF ~env.registry THEN <<>> ELSE findAllGOGGamesIn(env.keys)

\* mapGOGGameToGame
mapGOGGameToGame(gogGame) ==
    Game("gog-" \o gogGame.id, gogGame.name, GOGPlatformName, gogGame.iconPath,
         "/command=runGame /gameId=" \o gogGame.id \o " /path=\"" \o gogGame.path \o "\"",
         "goggalaxy://openGameView/" \o gogGame.id)

\* SynchronizeGames: without the Galaxy client there is no game
GOGSynchronizeGames(env) ==
    IF env.client = Undefined THEN SyncResult(FALSE, <<>>)
    ELSE LET gogGames == findAllGOGGames(env)
         IN  SyncResult(FALSE, [i \in DOMAIN gogGames |-> mapGOGGameToGame(gogGames[i])])

(***************************************************************************)
(* The PlayniteSyncEngine of platforms/interfaces.ts (lines 98-213)        *)
(*                                                                         *)
(* The Playnite environment is [snapshotExists, snapshotParses, snapshot,  *)
(* dataPath, gamesPathExists, gameFiles, existing]: whether the library    *)
(* snapshot exists, whether it reads and parses, its entries, whether the  *)
(* Playnite data path resolves (a preference path or APPDATA), whether     *)
(* library\games exists, and the per-title .json files.  A snapshot entry  *)
(* is [Id, Name, IsInstalled, Hidden, Source, Icon]; a per-title file is   *)
(* [parses, Id, Name, IsInstalled, Hidden, SourceName, Icon].  existing is *)
(* the set of media files that exist under library\files.                  *)
(***************************************************************************)
PlaynitePlatformName == "Playnite"

\* `${PlatformName}${source ? ` (${source})` : ""}`
PlaynitePlatform(source) ==
    IF Truthy(source) THEN PlaynitePlatformName \o " (" \o source \o ")"
    ELSE PlaynitePlatformName

\* the Game of one entry (of the snapshot or of the per-title store)
PlayniteGame(Id, Name, source, iconPath) ==
    Game(Id, Name, PlaynitePlatform(source), iconPath,
         "playnite://playnite/start/" \o Id, Undefined)

\* getIconPath: the media file of an icon id, when it exists
PlayniteIconPath(iconId, existing) ==
    IF ~Truthy(iconId) THEN Undefined
    ELSE IF iconId \in existing THEN "library\\files\\" \o iconId
    ELSE Undefined

RECURSIVE readSnapshot(_, _, _)
\* the loop over the snapshot's entries: [games, threw].  Reading a
\* property of an element that is null throws; an entry with an Icon needs
\* the data path, and getPlayniteDataPath throws when there is none
readSnapshot(entries, games, env) ==
    IF entries = <<>> THEN [games |-> games, threw |-> FALSE]
    ELSE LET gameData == Head(entries)
         IN  IF ~gameData.object
             THEN [games |-> games, threw |-> TRUE]
             ELSE IF ~gameData.IsInstalled \/ gameData.Hidden
             THEN readSnapshot(Tail(entries), games, env)
             ELSE IF Truthy(gameData.Icon) /\ ~env.dataPath
             THEN [games |-> games, threw |-> TRUE]
             ELSE readSnapshot(Tail(entries),
                               Append(games,
                                      PlayniteGame(gameData.Id, gameData.Name, gameData.Source,
                                                   PlayniteIconPath(gameData.Icon, env.existing))),
                               env)

RECURSIVE readGameFiles(_, _, _)
\* the loop over the per-title files: a file that does not parse is skipped
readGameFiles(files, games, env) ==
    IF files = <<>> THEN games
    ELSE LET gameData == Head(files)
         IN  IF ~gameData.parses \/ ~gameData.IsInstalled
             THEN readGameFiles(Tail(files), games, env)
             ELSE readGameFiles(Tail(files),
                                Append(games,
                                       PlayniteGame(gameData.Id, gameData.Name,
                                                    gameData.SourceName,
                                                    PlayniteIconPath(gameData.Icon, env.existing))),
                                env)

\* the second half of SynchronizeGames: the per-title store, appended to what
\* SynchronizedGames already holds
PlayniteReadStore(env, games) ==
    IF ~env.dataPath \/ ~env.gamesPathExists THEN SyncResult(TRUE, games)
    ELSE SyncResult(FALSE, readGameFiles(env.gameFiles, games, env))

\* a SynchronizeGames that goes on to the per-title store after the snapshot
PlayniteSynchronizeGamesNoReturn(env) ==
    IF env.snapshotExists
    THEN IF ~env.snapshotParses THEN PlayniteReadStore(env, <<>>)
         ELSE PlayniteReadStore(env, readSnapshot(env.snapshot, <<>>, env).games)
    ELSE PlayniteReadStore(env, <<>>)

\* SynchronizeGames: the exported snapshot when it exists and reads, the
\* per-title store otherwise
PlayniteSynchronizeGames(env) ==
    IF env.snapshotExists
    THEN IF ~env.snapshotParses THEN PlayniteReadStore(env, <<>>)
         ELSE LET r == readSnapshot(env.snapshot, <<>>, env)
              IN  IF r.threw THEN PlayniteReadStore(env, r.games)
                  ELSE SyncResult(FALSE, r.games)
    ELSE PlayniteReadStore(env, <<>>)

(***************************************************************************)
(* platforms/xbox/XboxSyncEngine.ts                                        *)
(*                                                                         *)
(* The Xbox environment is [localApps, owned, details, startApps]: the     *)
(* store packages getUWPApps lists (each [Name, PackageFamilyName, icon]), *)
(* the cached owned package family names (optional), the package family    *)
(* names the cached details table names a title for, together with that    *)
(* title, and the Start Apps (each [AppID, pfn, isPackaged]: the AppID,    *)
(* its part before "!", and whether it has a "!" and an "_" in that part). *)
(***************************************************************************)
XboxPlatformName == "Xbox"

\* s without the prefix p, when it starts with it
StripPrefix(s, p) ==
    IF Len(s) >= Len(p) /\ SubSeq(s, 1, Len(p)) = p THEN SubSeq(s, Len(p) + 1, Len(s)) ELSE s

\* s without the suffix p, when it ends with it
StripSuffix(s, p) ==
    IF Len(s) >= Len(p) /\ SubSeq(s, Len(s) - Len(p) + 1, Len(s)) = p
    THEN SubSeq(s, 1, Len(s) - Len(p))
    ELSE s

\* the first letter of each word in upper case, the others in lower case
Capitalize(s) ==
    [i \in DOMAIN s |-> IF i = 1 \/ s[i - 1] = " " THEN UpperChar(s[i]) ELSE LowerChar(s[i])]

\* cleanGameName
cleanGameName(packageName) ==
    LET a == StripPrefix(packageName, <<"M","i","c","r","o","s","o","f","t",".">>)
        b == StripPrefix(a, <<"X","b","o","x",".">>)
        c == StripSuffix(b, <<"G","a","m","e">>)
        d == StripSuffix(c, <<"A","p","p">>)
        e == [i \in DOMAIN d |-> IF d[i] = "." THEN " " ELSE d[i]]
    IN  Capitalize(trim(e))

\* getStartApps: the AppID of the last Start App of each package family name
startAppsMap(startApps) ==
    LET packaged == SelectSeq(startApps, LAMBDA app : app.isPackaged)
    IN  [pfn \in {packaged[i].pfn : i \in DOMAIN packaged} |->
            LET last == CHOOSE i \in DOMAIN packaged :
                            /\ packaged[i].pfn = pfn
                            /\ \A j \in DOMAIN packaged : packaged[j].pfn = pfn => j <= i
            IN  packaged[last].AppID]

\* createLaunchCommand
createLaunchCommand(packageFamilyName, map) ==
    IF packageFamilyName \in DOMAIN map
    THEN "shell:AppsFolder\\" \o map[packageFamilyName]
    ELSE "shell:AppsFolder\\" \o packageFamilyName \o "!App"

\* isXboxGame
isXboxGame(pfn, ownedGames) == pfn \in ownedGames

\* the Game of one local package
XboxGame(app, env) ==
    LET named == app.PackageFamilyName \in DOMAIN env.details
                 /\ env.details[app.PackageFamilyName] # <<>>
    IN  Game(app.PackageFamilyName,
             IF named THEN env.details[app.PackageFamilyName] ELSE cleanGameName(app.Name),
             XboxPlatformName, app.icon,
             createLaunchCommand(app.PackageFamilyName, startAppsMap(env.startApps)),
             Undefined)

\* getOwnedGamesFromCache: the list under the cache key
\* "xbox-owned-games-pfns" when there is one, otherwise the list of the file
\* debug_owned_xbox_games_pfns.json when there is one, otherwise null
getOwnedGamesFromCache(env) ==
    IF env.owned.some THEN env.owned
    ELSE IF env.debugFile.some THEN env.debugFile
    ELSE None

\* SynchronizeGames that raises when there is no list of owned games
XboxSynchronizeGamesRaising(env) ==
    LET ownedGames == getOwnedGamesFromCache(env)
    IN  IF ~ownedGames.some \/ ownedGames.val = {} THEN SyncResult(TRUE, <<>>)
        ELSE LET apps == SelectSeq(env.localApps,
                                   LAMBDA app : isXboxGame(app.PackageFamilyName, ownedGames.val))
             IN  SyncResult(FALSE, [i \in DOMAIN apps |-> XboxGame(apps[i], env)])

\* SynchronizeGames that emits every local package once a list is cached
XboxSynchronizeGamesAllLocal(env) ==
    LET ownedGames == getOwnedGamesFromCache(env)
    IN  IF ~ownedGames.some \/ ownedGames.val = {} THEN SyncResult(FALSE, <<>>)
        ELSE SyncResult(FALSE, [i \in DOMAIN env.localApps |-> XboxGame(env.localApps[i], env)])

\* SynchronizeGames: the field is emptied first; no cached owned games, no
\* game; otherwise the local packages that are owned.  Nothing is rethrown
XboxSynchronizeGames(env) ==
    LET ownedGames == getOwnedGamesFromCache(env)
    IN  IF ~ownedGames.some \/ ownedGames.val = {} THEN SyncResult(FALSE, <<>>)
        ELSE LET apps == SelectSeq(env.localApps,
                                   LAMBDA app : isXboxGame(app.PackageFamilyName, ownedGames.val))
             IN  SyncResult(FALSE, [i \in DOMAIN apps |-> XboxGame(apps[i], env)])

(***************************************************************************)
(* platforms/shortcuts/ShortcutsSyncEngine.ts (lines 1-199)                *)
(*                                                                         *)
(* The Shortcuts environment is [customDirs, dirs, existing].  customDirs  *)
(* are the five preference slots, each [path, name, enable] (path and name *)
(* a string or Undefined).  dirs maps the path of each directory that      *)
(* exists to [readable, base, entries]: whether readdirSync succeeds, the  *)
(* basename of the path, and the entries in directory order.  An entry is  *)
(* [kind, base, ext, readable, lines]: kind is "file", "dir" or "broken"   *)
(* (statSync throws); the entry's name is base followed by ext, the        *)
(* extension as written (character sequences); for a file, readable says   *)
(* whether readFileSync succeeds and lines are its lines, each [key,       *)
(* value]: the text up to and including "=" and the trimmed rest.          *)
(* existing is the set of paths, other than directories, that exist.       *)
(***************************************************************************)
ShortcutPlatformName == "Shortcut"

supportedExtensions == {<<".", "u", "r", "l">>, <<".", "l", "n", "k">>}

\* path.join of a directory and an entry name
join(dirPath, entry) == dirPath \o "\\" \o entry

\* getConfiguredDirectories: the slots whose path is set and exists
getConfiguredDirectories(env) ==
    LET configured == SelectSeq(env.customDirs,
                                LAMBDA dir : Truthy(dir.path) /\ dir.path \in DOMAIN env.dirs)
    IN  [i \in DOMAIN configured |->
            [path |-> configured[i].path,
             name |-> OrElse(configured[i].name, env.dirs[configured[i].path].base)]]

RECURSIVE getAllFilesRecursively(_, _)
RECURSIVE walkEntries(_, _, _)
\* the loop of getAllFilesRecursively over the entries of dirPath: an entry
\* whose statSync throws ends the loop, the files found so far are kept
walkEntries(dirPath, entries, env) ==
    IF entries = <<>> THEN <<>>
    ELSE LET entry == Head(entries)
             fullPath == join(dirPath, Join(entry.base) \o Join(entry.ext))
         IN  CASE entry.kind = "broken" -> <<>>
               [] entry.kind = "dir" ->
                    getAllFilesRecursively(fullPath, env)
                        \o walkEntries(dirPath, Tail(entries), env)
               [] entry.kind = "file" ->
                    <<[path |-> fullPath, entry |-> entry]>>
                        \o walkEntries(dirPath, Tail(entries), env)

\* getAllFilesRecursively: the files under dirPath, sub-directories in place
getAllFilesRecursively(dirPath, env) ==
    IF dirPath \notin DOMAIN env.dirs \/ ~env.dirs[dirPath].readable THEN <<>>
    ELSE walkEntries(dirPath, env.dirs[dirPath].entries, env)

\* getIconPath: for a .url file that can be read, the value of the first
\* IconFile= line that names an existing file; the shortcut's path otherwise
getIconPath(file, env) ==
    LET lines == file.entry.lines
        usable(i) == /\ lines[i].key = "IconFile="
                     /\ Truthy(lines[i].value)
                     /\ lines[i].value \in env.existing
    IN  IF /\ toLowerCase(file.entry.ext) = <<".", "u", "r", "l">>
           /\ file.entry.readable
           /\ \E i \in DOMAIN lines : usable(i)
        THEN lines[CHOOSE i \in DOMAIN lines : usable(i) /\ \A j \in 1..(i - 1) : ~usable(j)].value
        ELSE file.path

\* the shortcuts of one configured directory, in the loop of findAllShortcuts
shortcutsOf(directory, env) ==
    LET files == SelectSeq(getAllFilesRecursively(directory.path, env),
                           LAMBDA f : toLowerCase(f.entry.ext) \in supportedExtensions)
    IN  [i \in DOMAIN files |->
            [path |-> files[i].path,
             \* basename(filePath, ext) with the lower-cased extension: the
             \* suffix is removed only when it is written in lower case
             name |-> IF toLowerCase(files[i].entry.ext) = files[i].entry.ext
                      THEN files[i].entry.base
                      ELSE files[i].entry.base \o files[i].entry.ext,
             iconPath |-> getIconPath(files[i], env),
             directory |-> directory]]

\* findAllShortcuts
findAllShortcuts(env) ==
    LET directories == getConfiguredDirectories(env)
    IN  Concat([i \in DOMAIN directories |-> shortcutsOf(directories[i], env)])

\* Buffer.from(path).toString('base64'): an injective encoding of the path
\* into the base64 alphabet, kept symbolic
base64(path) == "base64<" \o path \o ">"

\* mapShortcutToGame
mapShortcutToGame(shortcut) ==
    Game("shortcut-" \o base64(shortcut.path), shortcut.name,
         ShortcutPlatformName \o " (" \o shortcut.directory.name \o ")",
         shortcut.iconPath, shortcut.path,
         "Delete \"" \o Join(shortcut.name) \o "\"")

\* SynchronizeGames
ShortcutsSynchronizeGames(env) ==
    LET shortcuts == findAllShortcuts(env)
    IN  SyncResult(FALSE, [i \in DOMAIN shortcuts |-> mapShortcutToGame(shortcuts[i])])

(***************************************************************************)
(* The EaAppSyncEngine of platforms/shortcuts/ShortcutsSyncEngine.ts       *)
(* (lines 200-490) and the UbisoftSyncEngine of                            *)
(* platforms/playnite/PlayniteSyncEngine.ts (lines 89-276)                 *)
(*                                                                         *)
(* Both read the Uninstall registry branch.  The environment is            *)
(* [registry, keys]: whether the query of the branch succeeds, and its     *)
(* subkeys, each [keyId, Publisher, DisplayName, installPath,              *)
(* uninstallString, icon, xmlExe, uninstallExe]: the last component of the *)
(* key (a character sequence); the Publisher and DisplayName queries, each *)
(* [throws, match] (whether reg query fails, and the value its output      *)
(* shows, optional); the InstallLocation and UninstallString values        *)
(* (string or Undefined); the icon found; and the executables that the     *)
(* installer data and the uninstall string lead to (string or Undefined).  *)
(***************************************************************************)
EaPlatformName == "EA app"

UbisoftPlatformName == "Ubisoft Connect"

\* findExecutablePath
findExecutablePath(key) ==
    IF Truthy(key.installPath) /\ Truthy(key.xmlExe) THEN key.xmlExe
    ELSE IF Truthy(key.uninstallString) THEN key.uninstallExe
    ELSE Undefined

\* the attribution test of parseEaGameFromRegistry
isEaGame(key) ==
    IF key.Publisher.throws
    THEN \/ includes(toLowerCase(key.keyId), <<"e", "a">>)
         \/ includes(toLowerCase(key.keyId), <<"o", "r", "i", "g", "i", "n">>)
    ELSE /\ key.Publisher.match.some
         /\ LET publisher == toLowerCase(key.Publisher.match.val)
            IN  \/ includes(publisher, <<"e","l","e","c","t","r","o","n","i","c"," ","a","r","t","s">>)
                \/ includes(publisher, <<"e","a"," ","g","a","m","e","s">>)
                \/ includes(publisher, <<"e","a"," ","s","p","o","r","t","s">>)
                \/ includes(publisher, <<"e","a"," ">>)

\* parseEaGameFromRegistry
parseEaGameFromRegistry(key) ==
    IF ~isEaGame(key) THEN None
    ELSE IF key.DisplayName.throws \/ ~key.DisplayName.match.some THEN None
    ELSE Some([id |-> Join(key.keyId),
               title |-> trim(key.DisplayName.match.val),
               iconPath |-> key.icon,
               uninstallString |-> key.uninstallString,
               executablePath |-> findExecutablePath(key)])

RECURSIVE findAllEaGamesIn(_)
findAllEaGamesIn(keys) ==
    IF keys = <<>> THEN <<>>
    ELSE LET game == parseEaGameFromRegistry(Head(keys))
         IN  (IF game.some THEN <<game.val>> ELSE <<>>) \o findAllEaGamesIn(Tail(keys))

\* findAllEaGames
findAllEaGames(env) == IF ~env.registry THEN <<>> ELSE findAllEaGamesIn(env.keys)

\* a model of mapEaGameToGame that leaves launchCommand empty without an executable
mapEaGameToGameNoFallback(eaGame) ==
    Game("ea-" \o eaGame.id, eaGame.title, EaPlatformName, eaGame.iconPath,
         IF Truthy(eaGame.executablePath) THEN eaGame.executablePath ELSE "",
         eaGame.uninstallString)

\* mapEaGameToGame: launchCommand is executablePath || `"${executablePath}"`
mapEaGameToGame(eaGame) ==
    Game("ea-" \o eaGame.id, eaGame.title, EaPlatformName, eaGame.iconPath,
         OrElse(eaGame.executablePath, "\"" \o ToStr(eaGame.executablePath) \o "\""),
         eaGame.uninstallString)

\* SynchronizeGames
EaSynchronizeGames(env) ==
    LET eaGames == findAllEaGames(env)
    IN  SyncResult(FALSE, [i \in DOMAIN eaGames |-> mapEaGameToGame(eaGames[i])])

\* the first occurrence of sub in s removed: s.replace(sub, '')
removeFirst(s, sub) ==
    IF ~includes(s, sub) THEN s
    ELSE LET i == CHOOSE i \in 0..(Len(s) - Len(sub)) :
                      /\ SubSeq(s, i + 1, i + Len(sub)) = sub
                      /\ \A j \in 0..(i - 1) : SubSeq(s, j + 1, j + Len(sub)) # sub
         IN  SubSeq(s, 1, i) \o SubSeq(s, i + Len(sub) + 1, Len(s))

UplayInstall == <<"U","p","l","a","y"," ","I","n","s","t","a","l","l">>

\* the attribution test of parseUbisoftGameFromRegistry
isUbisoftGame(key) ==
    \/ includes(key.keyId, UplayInstall)
    \/ includes(key.keyId, <<"U","b","i","s","o","f","t">>)
    \/ /\ ~key.Publisher.throws
       /\ key.Publisher.match.some
       /\ includes(toLowerCase(key.Publisher.match.val), <<"u","b","i","s","o","f","t">>)

\* parseUbisoftGameFromRegistry
parseUbisoftGameFromRegistry(key) ==
    IF ~isUbisoftGame(key) THEN None
    ELSE IF key.DisplayName.throws \/ ~key.DisplayName.match.some THEN None
    ELSE Some([id |-> Join(removeFirst(key.keyId, UplayInstall \o <<" ">>)),
               title |-> trim(key.DisplayName.match.val),
               iconPath |-> key.icon,
               uninstallString |-> key.uninstallString])

RECURSIVE findAllUbisoftGamesIn(_)
findAllUbisoftGamesIn(keys) ==
    IF keys = <<>> THEN <<>>
    ELSE LET game == parseUbisoftGameFromRegistry(Head(keys))
         IN  (IF game.some THEN <<game.val>> ELSE <<>>) \o findAllUbisoftGamesIn(Tail(keys))

\* findAllUbisoftGames
findAllUbisoftGames(env) == IF ~env.registry THEN <<>> ELSE findAllUbisoftGamesIn(env.keys)

\* mapUbisoftGameToGame
mapUbisoftGameToGame(ubisoftGame) ==
    Game("ubisoft-" \o ubisoftGame.id, ubisoftGame.title, UbisoftPlatformName,
         ubisoftGame.iconPath, "uplay://launch/" \o ubisoftGame.id \o "/0",
         ubisoftGame.uninstallString)

\* SynchronizeGames
UbisoftSynchronizeGames(env) ==
    LET ubisoftGames == findAllUbisoftGames(env)
    IN  SyncResult(FALSE, [i \in DOMAIN ubisoftGames |-> mapUbisoftGameToGame(ubisoftGames[i])])

(***************************************************************************)
(* launch-game.tsx: the ordering of the merged list                        *)
(***************************************************************************)
SortOrders == {"alphabetical", "platform", "lastPlayed"}

\* const platformOrder = { Steam: 1, "Epic Games": 2, GOG: 3, Xbox: 4, Playnite: 5 }
platformOrder ==
    ("Steam" :> 1) @@ ("Epic Games" :> 2) @@ ("GOG" :> 3) @@ ("Xbox" :> 4) @@ ("Playnite" :> 5)

\* a rank that puts the labels platformOrder does not name first
PlatformRankUnknownFirst(platform) ==
    IF platform \in DOMAIN platformOrder THEN platformOrder[platform] ELSE 0

\* platformOrder[platform] || 999
PlatformRank(platform) ==
    IF platform \in DOMAIN platformOrder THEN platformOrder[platform] ELSE 999

\* the comparator handed to Array.prototype.sort under a sort order
compare(sortOrder, a, b) ==
    CASE sortOrder = "alphabetical" -> localeCompare(a.title, b.title)
      [] sortOrder = "platform" -> PlatformRank(a.platform) - PlatformRank(b.platform)

\* an insertion that puts g before the elements it compares equal to
insertBeforeEqual(sortOrder, sorted, g) ==
    LET before == {i \in DOMAIN sorted : compare(sortOrder, sorted[i], g) < 0}
        k == IF before = {} THEN 0 ELSE CHOOSE i \in before : \A j \in before : j <= i
    IN  SubSeq(sorted, 1, k) \o <<g>> \o SubSeq(sorted, k + 1, Len(sorted))

\* the place of g in a sorted list: after the last element that does not
\* compare greater, so that equal elements keep their order
insert(sortOrder, sorted, g) ==
    LET before == {i \in DOMAIN sorted : compare(sortOrder, sorted[i], g) <= 0}
        k == IF before = {} THEN 0 ELSE CHOOSE i \in before : \A j \in before : j <= i
    IN  SubSeq(sorted, 1, k) \o <<g>> \o SubSeq(sorted, k + 1, Len(sorted))

RECURSIVE insertAll(_, _, _)
insertAll(sortOrder, sorted, games) ==
    IF games = <<>> THEN sorted
    ELSE insertAll(sortOrder, insert(sortOrder, sorted, Head(games)), Tail(games))

\* Array.prototype.sort with the comparator: a stable sort
sort(sortOrder, games) == insertAll(sortOrder, <<>>, games)

\* the switch on preferences.sortOrder: lastPlayed keeps the original order
sortGames(sortOrder, games) ==
    IF sortOrder \in {"alphabetical", "platform"} THEN sort(sortOrder, games) ELSE games

(***************************************************************************)
(* launch-game.tsx: one turn of the loop of loadGames over syncEngines     *)
(***************************************************************************)
\* a loop in which a failing scanner empties the merged list
pushGamesOrReset(allGames, result) ==
    IF result.raised THEN <<>> ELSE allGames \o result.games

\* allGames.push(...syncEngine.SynchronizedGames), skipped when
\* SynchronizeGames raised
pushGames(allGames, result) ==
    IF result.raised THEN allGames ELSE allGames \o result.games

\* a toast of the launcher
Toast(style, title, message) == [style |-> style, title |-> title, message |-> message]

\* a loop whose catch branch shows nothing
failureToastsSilent(toasts, PlatformName, result) ==
    toasts

\* the catch branch: showToast(Failure, `${PlatformName} detection failed`)
failureToasts(toasts, PlatformName, result) ==
    IF result.raised
    THEN Append(toasts, Toast("Failure", PlatformName \o " detection failed",
                              "Could not detect " \o PlatformName \o " games"))
    ELSE toasts

(***************************************************************************)
(* The environments the scanners are run on: for each scanner, a bounded   *)
(* set of installations, with the titles, identifiers and paths below.     *)
(***************************************************************************)
MaxItemFiles == 2

MaxKeys == 2

MaxEntries == 2

Portal == <<"P", "o", "r", "t", "a", "l">>

Doom == <<"D", "o", "o", "m">>

DoomLower == <<"d", "o", "o", "m">>

Proton == <<"P", "r", "o", "t", "o", "n">>

\* the sequences over S of length at most n without a repeated element
DistinctSeqsUpTo(S, n) ==
    {s \in SeqsUpTo(S, n) : \A i, j \in DOMAIN s : i # j => s[i] # s[j]}

\* what a manifest may hold under "StateFlags"
StateFlagsValues ==
    {None, Some(<<>>), Some(<<"4">>), Some(<<"3">>), Some(<<"0">>), Some(<<"6">>),
     Some(<<"8">>), Some(<<"x">>), Some(<<"1", "2">>), Some(<<"-", "4">>),
     Some(<<"0", "x", "4">>)}

ManifestFile(readable, appid, name, StateFlags) ==
    [readable |-> readable, appid |-> appid, name |-> name, StateFlags |-> StateFlags,
     icon |-> Undefined]

ManifestFiles ==
    {ManifestFile(TRUE, appid, Some(Portal), f) : appid \in {"440", "620"}, f \in StateFlagsValues}
    \cup {ManifestFile(TRUE, "1493710", Some(Proton), Some(<<"4">>)),
          ManifestFile(FALSE, "440", Some(Portal), Some(<<"4">>)),
          ManifestFile(TRUE, Undefined, Some(Portal), Some(<<"4">>)),
          ManifestFile(TRUE, "440", None, Some(<<"4">>)),
          ManifestFile(TRUE, "440", Some(Doom), Some(<<"4">>))}

\* one library folder, or two, holding MaxManifests manifests at most
SteamLibraries ==
    {<<files>> : files \in SeqsUpTo(ManifestFiles, MaxManifests)}
    \cup {<<a, b>> : a, b \in [1..1 -> ManifestFiles]}

SteamEnv(steamPath, vdfReadable, libraries) ==
    [steamPath |-> steamPath, vdfReadable |-> vdfReadable, libraries |-> libraries]

SteamEnvs ==
    {SteamEnv(FALSE, TRUE, <<>>), SteamEnv(TRUE, FALSE, <<>>)}
    \cup {SteamEnv(TRUE, TRUE, libraries) : libraries \in SteamLibraries}

\* the texts of .item files: well formed, with a trailing comma, led by a
\* byte-order mark, with a doubled comma, truncated, and beyond repair
ValidContent == <<"{", "kv", "}">>

TrailingCommaContent == <<"{", "kv", ",", "}">>

TruncatedContent == <<"{", "kv", ",">>

ItemContents ==
    {ValidContent, <<"{", "kv", ",", "kv", "}">>, TrailingCommaContent,
     <<"{", "kv", ",", "kv", ",", " ", "}">>, <<"BOM", "{", "kv", "}">>,
     <<"{", "kv", ",", ",", "kv", "}">>, <<"{", "kv", "}", ",">>, TruncatedContent,
     <<"{", "kv", ",", ",", "}">>, <<"x">>}

JObject(CatalogItemId, DisplayName, InstallLocation, AppName, LaunchExecutable, bIsApplication) ==
    [CatalogItemId |-> CatalogItemId, DisplayName |-> DisplayName,
     InstallLocation |-> InstallLocation, AppName |-> AppName,
     CatalogNamespace |-> "ns", LaunchExecutable |-> LaunchExecutable,
     bIsApplication |-> bIsApplication]

InstallDir == JsStr(<<"C", ":", "\\", "E">>)

GoodJObject == JObject("c1", Some(Doom), InstallDir, "Fortnite", JsStr(<<"e">>), JsBool(TRUE))

OtherJObject == JObject("c2", Some(Portal), InstallDir, "Sugar", JsUndefined, JsBool(TRUE))

JObjects ==
    {GoodJObject, OtherJObject,
     JObject("c1", Some(Doom), InstallDir, "Fortnite", JsStr(<<"e">>), JsBool(FALSE)),
     JObject("c1", Some(Doom), InstallDir, "Fortnite", JsStr(<<"e">>), JsUndefined),
     JObject("c1", Some(Doom), JsUndefined, "Fortnite", JsStr(<<"e">>), JsBool(TRUE)),
     JObject("c1", Some(Doom), JsStr(<<>>), "Fortnite", JsStr(<<"e">>), JsBool(TRUE)),
     JObject("c1", Some(Doom), JsStr(<<" ", " ">>), "Fortnite", JsStr(<<"e">>), JsBool(TRUE)),
     JObject("c1", Some(Doom), JsNum(5), "Fortnite", JsStr(<<"e">>), JsBool(TRUE)),
     JObject("c1", Some(Doom), JsStr(<<" ">>), "Fortnite", JsStr(<<"e">>), JsBool(FALSE)),
     JObject("c1", None, InstallDir, "Fortnite", JsStr(<<"e">>), JsBool(TRUE)),
     JObject(Undefined, Some(Doom), InstallDir, "Fortnite", JsStr(<<"e">>), JsBool(TRUE)),
     JObject("c1", Some(Doom), InstallDir, "Fortnite", JsNum(1), JsBool(TRUE))}

ItemFile(readable, content, jObject) ==
    [readable |-> readable, content |-> content, jObject |-> jObject, exeIcon |-> Undefined]

ItemFiles ==
    {ItemFile(TRUE, content, GoodJObject) : content \in ItemContents}
    \cup {ItemFile(TRUE, ValidContent, jObject) : jObject \in JObjects}
    \cup {ItemFile(TRUE, TrailingCommaContent, jObject) : jObject \in JObjects}
    \cup {ItemFile(TRUE, TruncatedContent, OtherJObject), ItemFile(FALSE, ValidContent, GoodJObject)}

EpicEnv(manifestsPath, dirReadable, files) ==
    [manifestsPath |-> manifestsPath, dirReadable |-> dirReadable, files |-> files]

EpicEnvs ==
    {EpicEnv(FALSE, TRUE, <<>>), EpicEnv(TRUE, FALSE, <<ItemFile(TRUE, ValidContent, GoodJObject)>>)}
    \cup {EpicEnv(TRUE, TRUE, files) : files \in SeqsUpTo(ItemFiles, MaxItemFiles)}

GOGKey(id, queries, gameName, path, pathExists) ==
    [id |-> id, queries |-> queries, gameName |-> gameName, path |-> path,
     pathExists |-> pathExists, icon |-> Undefined]

GOGKeys ==
    {GOGKey("440", TRUE, Some(Portal), "C:\\GOG\\Portal", TRUE),
     GOGKey("1207", TRUE, Some(<<" ">> \o Doom), "C:\\GOG\\Doom", TRUE),
     GOGKey("1207", FALSE, Some(Doom), "C:\\GOG\\Doom", TRUE),
     GOGKey("1207", TRUE, None, "C:\\GOG\\Doom", TRUE),
     GOGKey("1207", TRUE, Some(Doom), Undefined, FALSE),
     GOGKey("1207", TRUE, Some(Doom), "C:\\GOG\\Doom", FALSE)}

GOGEnv(client, registry, keys) == [client |-> client, registry |-> registry, keys |-> keys]

GOGEnvs ==
    {GOGEnv(Undefined, TRUE, <<>>), GOGEnv("C:\\GOG\\GalaxyClient.exe", FALSE, <<>>)}
    \cup {GOGEnv("C:\\GOG\\GalaxyClient.exe", TRUE, keys) :
            keys \in {ks \in SeqsUpTo(GOGKeys, MaxKeys) :
                        \A i, j \in DOMAIN ks : i # j => ks[i].id # ks[j].id}}

\* the outcome of one reg query /v: it fails, or shows a value, or none
QueryThrows == [throws |-> TRUE, match |-> None]

QueryShows(value) == [throws |-> FALSE, match |-> Some(value)]

QueryShowsNothing == [throws |-> FALSE, match |-> None]

UninstallKey(keyId, Publisher, DisplayName, installPath, uninstallString, xmlExe, uninstallExe) ==
    [keyId |-> keyId, Publisher |-> Publisher, DisplayName |-> DisplayName,
     installPath |-> installPath, uninstallString |-> uninstallString, icon |-> Undefined,
     xmlExe |-> xmlExe, uninstallExe |-> uninstallExe]

ElectronicArts == <<"E", "l", "e", "c", "t", "r", "o", "n", "i", "c", " ", "A", "r", "t", "s">>

UbisoftPublisher == <<"U", "b", "i", "s", "o", "f", "t">>

Valve == <<"V", "a", "l", "v", "e">>

\* the subkeys of the Uninstall branch
UninstallKeys ==
    {UninstallKey(<<"F", "I", "F", "A">>, QueryShows(ElectronicArts), QueryShows(Doom),
                  "C:\\EA\\FIFA", "C:\\EA\\FIFA\\unins.exe", "C:\\EA\\FIFA\\fifa.exe", Undefined),
     UninstallKey(<<"F", "I", "F", "A">>, QueryShows(ElectronicArts), QueryShows(Doom),
                  Undefined, "C:\\EA\\FIFA\\unins.exe", Undefined, "C:\\EA\\FIFA\\game.exe"),
     UninstallKey(<<"S", "i", "m", "s">>, QueryShows(ElectronicArts), QueryShows(Portal),
                  Undefined, Undefined, Undefined, Undefined),
     UninstallKey(<<"S", "i", "m", "s">>, QueryShows(ElectronicArts), QueryShows(Portal),
                  "C:\\EA\\Sims", "C:\\EA\\Sims\\unins.exe", Undefined, Undefined),
     UninstallKey(<<"O", "r", "i", "g", "i", "n">>, QueryThrows, QueryShows(Doom),
                  Undefined, Undefined, Undefined, Undefined),
     UninstallKey(<<"S", "t", "e", "a", "m">>, QueryThrows, QueryShows(Portal),
                  Undefined, Undefined, Undefined, Undefined),
     UninstallKey(<<"7", "z", "i", "p">>, QueryThrows, QueryShows(Portal),
                  Undefined, Undefined, Undefined, Undefined),
     UninstallKey(<<"F", "I", "F", "A">>, QueryShows(ElectronicArts), QueryShowsNothing,
                  Undefined, Undefined, Undefined, Undefined),
     UninstallKey(<<"F", "I", "F", "A">>, QueryShows(ElectronicArts), QueryThrows,
                  Undefined, Undefined, Undefined, Undefined),
     UninstallKey(<<"F", "I", "F", "A">>, QueryShowsNothing, QueryShows(Doom),
                  Undefined, Undefined, Undefined, Undefined),
     UninstallKey(UplayInstall \o <<" ", "6", "3", "5">>, QueryShows(UbisoftPublisher),
                  QueryShows(Doom), "C:\\Ubi\\635", "C:\\Ubi\\unins.exe", Undefined, Undefined),
     UninstallKey(<<"A", "n", "n", "o">>, QueryShows(UbisoftPublisher), QueryShows(Portal),
                  Undefined, Undefined, Undefined, Undefined),
     UninstallKey(<<"S", "t", "e", "a", "m">>, QueryShows(Valve), QueryShows(Portal),
                  Undefined, Undefined, Undefined, Undefined)}

RegistryEnv(registry, keys) == [registry |-> registry, keys |-> keys]

RegistryEnvs ==
    {RegistryEnv(FALSE, <<>>)}
    \cup {RegistryEnv(TRUE, keys) :
            keys \in {ks \in SeqsUpTo(UninstallKeys, MaxKeys) :
                        \A i, j \in DOMAIN ks : i # j => ks[i].keyId # ks[j].keyId}}

PlayniteEntry(Id, IsInstalled, Hidden, Source, Icon) ==
    [Id |-> Id, Name |-> Portal, IsInstalled |-> IsInstalled, Hidden |-> Hidden,
     Source |-> Source, Icon |-> Icon, object |-> TRUE]

\* an element of the snapshot's array that is no object: null
NullEntry ==
    [PlayniteEntry(Undefined, FALSE, FALSE, Undefined, Undefined) EXCEPT !.object = FALSE]

\* the entries of a library snapshot
PlayniteEntries ==
    {PlayniteEntry(Id, IsInstalled, Hidden, Source, Undefined) :
        Id \in {"6f1c", "Halo_8wekyb"}, IsInstalled \in BOOLEAN, Hidden \in BOOLEAN,
        Source \in {Undefined, "Steam"}}
    \cup {PlayniteEntry("440", TRUE, FALSE, "Steam", Icon) : Icon \in {"i.png", "j.png"}}

PlayniteFile(parses, Id, IsInstalled, Hidden, SourceName) ==
    [parses |-> parses, Id |-> Id, Name |-> Doom, IsInstalled |-> IsInstalled,
     Hidden |-> Hidden, SourceName |-> SourceName, Icon |-> Undefined]

\* the per-title files of the library store
PlayniteFiles ==
    {PlayniteFile(TRUE, "6f1c", TRUE, FALSE, "GOG"), PlayniteFile(TRUE, "77aa", TRUE, TRUE, Undefined),
     PlayniteFile(TRUE, "77aa", FALSE, FALSE, Undefined), PlayniteFile(FALSE, "77aa", TRUE, FALSE, Undefined)}

PlayniteEnv(snapshotExists, snapshotParses, snapshot, dataPath, gamesPathExists, gameFiles) ==
    [snapshotExists |-> snapshotExists, snapshotParses |-> snapshotParses,
     snapshot |-> snapshot, dataPath |-> dataPath, gamesPathExists |-> gamesPathExists,
     gameFiles |-> gameFiles, existing |-> {"i.png"}]

PlayniteEnvs ==
    {PlayniteEnv(TRUE, TRUE, snapshot, dataPath, dataPath, <<PlayniteFile(TRUE, "6f1c", TRUE, FALSE, "GOG")>>) :
        snapshot \in SeqsUpTo(PlayniteEntries \cup {NullEntry}, MaxEntries), dataPath \in BOOLEAN}
    \cup {PlayniteEnv(snapshotExists, FALSE, <<>>, dataPath, gamesPathExists, gameFiles) :
            snapshotExists \in BOOLEAN, dataPath \in BOOLEAN, gamesPathExists \in BOOLEAN,
            gameFiles \in SeqsUpTo(PlayniteFiles, MaxEntries)}

XboxApp(Name, PackageFamilyName) ==
    [Name |-> Name, PackageFamilyName |-> PackageFamilyName, icon |-> Undefined]

HaloApp == XboxApp(<<"M", "i", "c", "r", "o", "s", "o", "f", "t", ".", "H", "a", "l", "o", "G", "a", "m", "e">>,
                   "Halo_8wekyb")

ForzaApp == XboxApp(<<"X", "b", "o", "x", ".", "f", "o", "r", "z", "a", ".", "h", "o", "r", "i", "z", "o", "n">>,
                    "Forza_8wekyb")

StartApp(AppID, pfn, isPackaged) == [AppID |-> AppID, pfn |-> pfn, isPackaged |-> isPackaged]

\* owned is the list under the cache key, debugFile the list of the file
\* debug_owned_xbox_games_pfns.json; either may be missing
XboxEnv(localApps, owned, details, startApps) ==
    [localApps |-> localApps, owned |-> owned, debugFile |-> None, details |-> details,
     startApps |-> startApps]

OwnedLists ==
    {None, Some({}), Some({"Halo_8wekyb"}), Some({"Halo_8wekyb", "Forza_8wekyb"}),
     Some({"Gears_8wekyb"}), Some({"Halo_8wekyb", "Gears_8wekyb"})}

DebugFiles == {None, Some({}), Some({"Forza_8wekyb"})}

XboxEnvs ==
    {[XboxEnv(localApps, owned, details, startApps) EXCEPT !.debugFile = debugFile] :
        localApps \in DistinctSeqsUpTo({HaloApp, ForzaApp}, 2),
        owned \in OwnedLists,
        debugFile \in DebugFiles,
        details \in {<<>>, "Halo_8wekyb" :> <<"H", "a", "l", "o">>, "Forza_8wekyb" :> <<>>},
        startApps \in {<<>>,
                       <<StartApp("Halo_8wekyb!Game", "Halo_8wekyb", TRUE)>>,
                       <<StartApp("Halo_8wekyb!Game", "Halo_8wekyb", TRUE),
                         StartApp("Halo_8wekyb!Editor", "Halo_8wekyb", TRUE)>>,
                       <<StartApp("C:\\forza.exe", "C:\\forza.exe", FALSE)>>}}

Slot(path, name, enable) == [path |-> path, name |-> name, enable |-> enable]

UnsetSlot == Slot(Undefined, Undefined, FALSE)

GamesDir == "C:\\Games"

AppsDir == "D:\\Apps"

\* the five preference slots customDir1 .. customDir5
CustomDirs(first, second) == <<first, second, UnsetSlot, UnsetSlot, UnsetSlot>>

CustomDirConfigs ==
    {CustomDirs(UnsetSlot, UnsetSlot),
     CustomDirs(Slot(GamesDir, "My Games", TRUE), UnsetSlot),
     CustomDirs(Slot(GamesDir, Undefined, TRUE), Slot(AppsDir, "Apps", TRUE)),
     CustomDirs(Slot(GamesDir, "My Games", FALSE), Slot(AppsDir, "Apps", TRUE)),
     CustomDirs(Slot(GamesDir, "My Games", TRUE), Slot(GamesDir, "My Games", TRUE)),
     CustomDirs(Slot(join(GamesDir, "sub"), "Sub", TRUE), Slot(GamesDir, "My Games", TRUE)),
     CustomDirs(Slot("E:\\Missing", "Gone", TRUE), Slot(AppsDir, Undefined, TRUE))}

IconTarget == "C:\\Icons\\game.ico"

FileEntry(base, ext, readable, lines) ==
    [kind |-> "file", base |-> base, ext |-> ext, readable |-> readable, lines |-> lines]

Line(key, value) == [key |-> key, value |-> value]

\* the entries a shortcut directory may hold, each under a name of its own
GameUrl ==
    FileEntry(<<"g", "a", "m", "e">>, <<".", "u", "r", "l">>, TRUE,
              <<Line("URL=", "steam://rungameid/440"), Line("IconFile=", IconTarget)>>)

ShortcutEntries ==
    {GameUrl,
     FileEntry(<<"w", "e", "b">>, <<".", "u", "r", "l">>, TRUE, <<Line("URL=", "https://example.org")>>),
     FileEntry(<<"t", "w", "o">>, <<".", "U", "R", "L">>, TRUE,
               <<Line("IconFile=", ""), Line("IconFile=", "C:\\Icons\\gone.ico"),
                 Line("IconFile=", IconTarget)>>),
     FileEntry(<<"l", "o", "c", "k">>, <<".", "u", "r", "l">>, FALSE, <<Line("IconFile=", IconTarget)>>),
     FileEntry(<<"a", "p", "p">>, <<".", "l", "n", "k">>, TRUE, <<Line("IconFile=", IconTarget)>>),
     FileEntry(<<"c", "a", "p">>, <<".", "L", "N", "K">>, TRUE, <<>>),
     FileEntry(<<"n", "o", "t", "e">>, <<".", "t", "x", "t">>, TRUE, <<>>),
     [kind |-> "broken", base |-> <<"b", "a", "d">>, ext |-> <<".", "l", "n", "k">>, readable |-> FALSE,
      lines |-> <<>>]}

SubDirEntry == [kind |-> "dir", base |-> <<"s", "u", "b">>, ext |-> <<>>, readable |-> TRUE, lines |-> <<>>]

Directory(readable, base, entries) == [readable |-> readable, base |-> base, entries |-> entries]

\* the directories that exist: C:\Games with the given entries (and,
\* optionally, its sub-directory, which holds one shortcut) and D:\Apps
FileSystem(readable, entries, withSub) ==
    (GamesDir :> Directory(readable, "Games", IF withSub THEN Append(entries, SubDirEntry) ELSE entries))
    @@ (join(GamesDir, "sub") :> Directory(TRUE, "sub", <<GameUrl>>))
    @@ (AppsDir :> Directory(TRUE, "Apps",
                             <<FileEntry(<<"a", "p", "p">>, <<".", "l", "n", "k">>, TRUE, <<>>)>>))

ShortcutsEnv(customDirs, dirs, existing) ==
    [customDirs |-> customDirs, dirs |-> dirs, existing |-> existing]

FileSystems ==
    {FileSystem(TRUE, entries, withSub) :
        entries \in DistinctSeqsUpTo(ShortcutEntries, MaxEntries), withSub \in BOOLEAN}
    \cup {FileSystem(FALSE, <<GameUrl>>, FALSE)}

ShortcutsEnvs ==
    {ShortcutsEnv(customDirs, dirs, existing) :
        customDirs \in CustomDirConfigs, dirs \in FileSystems, existing \in {{}, {IconTarget}}}

(***************************************************************************)
(* The installations loadGames is run on: a few per scanner, among them    *)
(* the ones on which a scanner raises.                                     *)
(***************************************************************************)
InstalledManifest(appid, name) == ManifestFile(TRUE, appid, Some(name), Some(<<"4">>))

SteamLoadEnvs ==
    {SteamEnv(TRUE, FALSE, <<>>),
     SteamEnv(TRUE, TRUE, << <<InstalledManifest("440", Portal)>> >>),
     SteamEnv(TRUE, TRUE, << <<InstalledManifest("620", DoomLower), InstalledManifest("440", Portal)>> >>)}

EpicLoadEnvs ==
    {EpicEnv(FALSE, TRUE, <<>>),
     EpicEnv(TRUE, TRUE, <<ItemFile(TRUE, TrailingCommaContent, GoodJObject)>>),
     EpicEnv(TRUE, TRUE, <<ItemFile(TRUE, ValidContent, OtherJObject),
                           ItemFile(TRUE, ValidContent,
                                    JObject("c1", Some(Doom), InstallDir, "Fortnite", JsNum(1),
                                            JsBool(TRUE)))>>)}

GOGLoadEnvs ==
    {GOGEnv(Undefined, TRUE, <<>>),
     GOGEnv("C:\\GOG\\GalaxyClient.exe", TRUE,
            <<GOGKey("440", TRUE, Some(Portal), "C:\\GOG\\Portal", TRUE)>>),
     GOGEnv("C:\\GOG\\GalaxyClient.exe", TRUE,
            <<GOGKey("1207", TRUE, Some(Doom), "C:\\GOG\\Doom", TRUE),
              GOGKey("440", TRUE, Some(Portal), "C:\\GOG\\Portal", TRUE)>>)}

PlayniteLoadEnvs ==
    {PlayniteEnv(TRUE, TRUE, <<PlayniteEntry("Halo_8wekyb", TRUE, FALSE, Undefined, Undefined),
                               PlayniteEntry("6f1c", TRUE, TRUE, "Steam", Undefined)>>,
                 TRUE, TRUE, <<>>),
     PlayniteEnv(TRUE, TRUE, <<PlayniteEntry("6f1c", TRUE, FALSE, "Steam", Undefined),
                               PlayniteEntry("440", TRUE, FALSE, "Steam", "i.png")>>,
                 FALSE, FALSE, <<>>),
     PlayniteEnv(FALSE, FALSE, <<>>, TRUE, FALSE, <<>>),
     PlayniteEnv(FALSE, FALSE, <<>>, TRUE, TRUE, <<PlayniteFile(TRUE, "6f1c", TRUE, FALSE, "GOG")>>)}

XboxLoadEnvs ==
    {XboxEnv(<<HaloApp>>, None, <<>>, <<>>),
     XboxEnv(<<HaloApp, ForzaApp>>, Some({"Halo_8wekyb"}), "Halo_8wekyb" :> Portal, <<>>),
     XboxEnv(<<ForzaApp, HaloApp>>, Some({"Halo_8wekyb", "Forza_8wekyb"}), <<>>,
             <<StartApp("Halo_8wekyb!Game", "Halo_8wekyb", TRUE)>>)}

LoadFileSystems ==
    {FileSystem(TRUE, <<GameUrl>>, FALSE), FileSystem(TRUE, <<>>, TRUE)}

(***************************************************************************)
(* The state.  preferences are the extension's preferences; syncEngines is *)
(* the list loadGames builds, by PlatformName; index is the place of the   *)
(* loop in it; allGames is the merged list; toasts are the notifications   *)
(* shown so far.  SynchronizedGames and outcome are, for each scanner, its *)
(* SynchronizedGames field and how its SynchronizeGames ended.             *)
(* environment is the installation a scanner that is run on its own has    *)
(* read.  shell is the list of the shell invocations made by launchGame    *)
(* and uninstallGame, each with its command line and working directory;    *)
(* mainWindow says whether the extension's window is open; disk is the set *)
(* of the shortcut files that exist; calls is the list of the calls made,  *)
(* each with its operation and what it was given.  setupState is the state *)
(* of the Xbox setup command (its step, error and gamesFound); cache is    *)
(* the list of the cache.set calls made, each with its key and value;      *)
(* tmpFile is the set of the script files that exist in tmpdir(), by name; *)
(* cycles holds, for each scan or listing that is under way or over, the   *)
(* call it is awaiting and what it has read.                               *)
(***************************************************************************)
VARIABLES preferences, syncEngines, pc, index, allGames, toasts,
          SynchronizedGames, outcome, environment,
          shell, mainWindow, disk, calls,
          setupState, cache, tmpFile, cycles

vars == <<preferences, syncEngines, pc, index, allGames, toasts,
          SynchronizedGames, outcome, environment,
          shell, mainWindow, disk, calls,
          setupState, cache, tmpFile, cycles>>

\* what the Xbox setup command and the runs of getUWPApps act on
setupVars == <<setupState, cache, tmpFile, cycles>>

\* what launchGame and uninstallGame act on
dispatchVars == <<shell, mainWindow, disk, calls>>

Engines ==
    {SteamPlatformName, EpicPlatformName, GOGPlatformName, PlaynitePlatformName,
     XboxPlatformName, ShortcutPlatformName, EaPlatformName, UbisoftPlatformName}

NoEnvironment == [none |-> TRUE]

\* the preferences: every setting of the flags loadGames reads, with
\* enableUbisoft and enableEAApp off, and, for two settings of the others,
\* every setting of enableUbisoft and enableEAApp
Preferences ==
    [enableSteam : BOOLEAN, enableEpicGames : BOOLEAN, enableGOG : BOOLEAN,
     enablePlaynite : BOOLEAN, enableXbox : BOOLEAN, sortOrder : SortOrders,
     enableUbisoft : {FALSE}, enableEAApp : {FALSE},
     customDirs : {CustomDirs(UnsetSlot, UnsetSlot),
                   CustomDirs(Slot(GamesDir, "My Games", TRUE), UnsetSlot),
                   CustomDirs(Slot(GamesDir, "My Games", FALSE), Slot(AppsDir, Undefined, TRUE))}]
    \cup [enableSteam : BOOLEAN, enableEpicGames : {FALSE}, enableGOG : {FALSE},
          enablePlaynite : {FALSE}, enableXbox : {FALSE}, sortOrder : {"lastPlayed"},
          enableUbisoft : BOOLEAN, enableEAApp : BOOLEAN,
          customDirs : {CustomDirs(UnsetSlot, UnsetSlot)}]

\* customDir1Enable || ... || customDir5Enable
hasEnabledShortcuts(prefs) == \E i \in DOMAIN prefs.customDirs : prefs.customDirs[i].enable

\* a list of engines in which Xbox comes before Playnite
enabledEnginesXboxFirst(prefs) ==
    (IF prefs.enableSteam THEN <<SteamPlatformName>> ELSE <<>>)
    \o (IF prefs.enableEpicGames THEN <<EpicPlatformName>> ELSE <<>>)
    \o (IF prefs.enableGOG THEN <<GOGPlatformName>> ELSE <<>>)
    \o (IF prefs.enableXbox THEN <<XboxPlatformName>> ELSE <<>>)
    \o (IF prefs.enablePlaynite THEN <<PlaynitePlatformName>> ELSE <<>>)
    \o (IF hasEnabledShortcuts(prefs) THEN <<ShortcutPlatformName>> ELSE <<>>)

\* the engines loadGames constructs, in the order it pushes them
enabledEngines(prefs) ==
    (IF prefs.enableSteam THEN <<SteamPlatformName>> ELSE <<>>)
    \o (IF prefs.enableEpicGames THEN <<EpicPlatformName>> ELSE <<>>)
    \o (IF prefs.enableGOG THEN <<GOGPlatformName>> ELSE <<>>)
    \o (IF prefs.enablePlaynite THEN <<PlaynitePlatformName>> ELSE <<>>)
    \o (IF prefs.enableXbox THEN <<XboxPlatformName>> ELSE <<>>)
    \o (IF hasEnabledShortcuts(prefs) THEN <<ShortcutPlatformName>> ELSE <<>>)

Init ==
    /\ preferences \in Preferences
    /\ syncEngines = <<>>
    /\ pc = "start"
    /\ index = 0
    /\ allGames = <<>>
    /\ toasts = <<>>
    /\ SynchronizedGames = [e \in Engines |-> <<>>]
    /\ outcome = [e \in Engines |-> "idle"]
    /\ environment = NoEnvironment
    /\ shell = <<>>
    /\ mainWindow = "open"
    /\ disk = {}
    /\ calls = <<>>
    /\ setupState = [step |-> "status", error |-> Undefined, gamesFound |-> Undefined]
    /\ cache = <<>>
    /\ tmpFile = {}
    /\ cycles = <<>>

\* loadGames up to its loop: the engines of the enabled platforms
LoadGames ==
    /\ pc = "start"
    /\ syncEngines' = enabledEngines(preferences)
    /\ index' = 1
    /\ pc' = "sync"
    /\ UNCHANGED <<preferences, allGames, toasts, SynchronizedGames, outcome, environment, dispatchVars, setupVars>>

\* one turn of the loop, on the engine PlatformName, whose SynchronizeGames
\* ends with result
LoopTurn(PlatformName, result) ==
    /\ SynchronizedGames' = [SynchronizedGames EXCEPT ![PlatformName] = result.games]
    /\ outcome' = [outcome EXCEPT ![PlatformName] = IF result.raised THEN "raised" ELSE "returned"]
    /\ allGames' = pushGames(allGames, result)
    /\ toasts' = failureToasts(toasts, PlatformName, result)
    /\ index' = index + 1
    /\ UNCHANGED <<preferences, syncEngines, pc, environment, dispatchVars, setupVars>>

\* the loop is at the engine PlatformName
LoopAt(PlatformName) ==
    /\ pc = "sync"
    /\ index <= Len(syncEngines)
    /\ syncEngines[index] = PlatformName

LoopSteam ==
    /\ LoopAt(SteamPlatformName)
    /\ \E env \in SteamLoadEnvs : LoopTurn(SteamPlatformName, SteamSynchronizeGames(env))

LoopEpic ==
    /\ LoopAt(EpicPlatformName)
    /\ \E env \in EpicLoadEnvs : LoopTurn(EpicPlatformName, EpicSynchronizeGames(env))

LoopGOG ==
    /\ LoopAt(GOGPlatformName)
    /\ \E env \in GOGLoadEnvs : LoopTurn(GOGPlatformName, GOGSynchronizeGames(env))

LoopPlaynite ==
    /\ LoopAt(PlaynitePlatformName)
    /\ \E env \in PlayniteLoadEnvs : LoopTurn(PlaynitePlatformName, PlayniteSynchronizeGames(env))

LoopXbox ==
    /\ LoopAt(XboxPlatformName)
    /\ \E env \in XboxLoadEnvs : LoopTurn(XboxPlatformName, XboxSynchronizeGames(env))

LoopShortcuts ==
    /\ LoopAt(ShortcutPlatformName)
    /\ \E dirs \in LoadFileSystems :
          LoopTurn(ShortcutPlatformName,
                   ShortcutsSynchronizeGames(ShortcutsEnv(preferences.customDirs, dirs, {IconTarget})))

\* after the loop: the sort of the merged list and the "Games loaded" toast
SortAndReturn ==
    /\ pc = "sync"
    /\ index > Len(syncEngines)
    /\ allGames' = sortGames(preferences.sortOrder, allGames)
    /\ toasts' = Append(toasts, Toast("Success", "Games loaded",
                                      "Found " \o ToString(Len(allGames)) \o " games"))
    /\ pc' = "done"
    /\ UNCHANGED <<preferences, syncEngines, index, SynchronizedGames, outcome, environment, dispatchVars, setupVars>>

Next ==
    \/ LoadGames
    \/ LoopSteam
    \/ LoopEpic
    \/ LoopGOG
    \/ LoopPlaynite
    \/ LoopXbox
    \/ LoopShortcuts
    \/ SortAndReturn

Spec == Init /\ [][Next]_vars

(***************************************************************************)
(* loadGames with external calls that never return.  The scanners of       *)
(* Steam, GOG and Xbox await execAsync (reg query, powershell), which is   *)
(* promisify(exec) called without a timeout: when the child process never  *)
(* exits, the promise is never settled and nothing after the await runs.   *)
(* Here environment holds, for each scanner, what its SynchronizeGames     *)
(* ends with on the machine of the run if its external calls return or     *)
(* fail.                                                                   *)
(***************************************************************************)
\* the scanners whose SynchronizeGames awaits a child process
AwaitingChildProcess == {SteamPlatformName, GOGPlatformName, XboxPlatformName}

\* what SynchronizeGames of the scanner e can end with when its external
\* calls return or fail
SettledResults(e, prefs) ==
    IF e \notin Range(enabledEngines(prefs)) THEN {SyncResult(FALSE, <<>>)}
    ELSE CASE e = SteamPlatformName -> {SteamSynchronizeGames(env) : env \in SteamLoadEnvs}
           [] e = EpicPlatformName -> {EpicSynchronizeGames(env) : env \in EpicLoadEnvs}
           [] e = GOGPlatformName -> {GOGSynchronizeGames(env) : env \in GOGLoadEnvs}
           [] e = PlaynitePlatformName -> {PlayniteSynchronizeGames(env) : env \in PlayniteLoadEnvs}
           [] e = XboxPlatformName -> {XboxSynchronizeGames(env) : env \in XboxLoadEnvs}
           [] e = ShortcutPlatformName ->
                 {ShortcutsSynchronizeGames(ShortcutsEnv(prefs.customDirs, dirs, {IconTarget})) :
                     dirs \in LoadFileSystems}

\* the machines of a run under the preferences prefs
Machines(prefs) ==
    {SteamPlatformName :> steam @@ EpicPlatformName :> epic @@ GOGPlatformName :> gog
         @@ PlaynitePlatformName :> playnite @@ XboxPlatformName :> xbox
         @@ ShortcutPlatformName :> shortcuts :
        steam \in SettledResults(SteamPlatformName, prefs),
        epic \in SettledResults(EpicPlatformName, prefs),
        gog \in SettledResults(GOGPlatformName, prefs),
        playnite \in SettledResults(PlaynitePlatformName, prefs),
        xbox \in SettledResults(XboxPlatformName, prefs),
        shortcuts \in SettledResults(ShortcutPlatformName, prefs)}

\* the ordering policy plays no part in whether the loop reaches its end:
\* the runs are those under sortOrder = lastPlayed
InitLive ==
    /\ preferences \in {prefs \in Preferences : prefs.sortOrder = "lastPlayed"}
    /\ syncEngines = <<>>
    /\ pc = "start"
    /\ index = 0
    /\ allGames = <<>>
    /\ toasts = <<>>
    /\ SynchronizedGames = [e \in Engines |-> <<>>]
    /\ outcome = [e \in Engines |-> "idle"]
    /\ environment \in Machines(preferences)
    /\ shell = <<>>
    /\ mainWindow = "open"
    /\ disk = {}
    /\ calls = <<>>
    /\ setupState = [step |-> "status", error |-> Undefined, gamesFound |-> Undefined]
    /\ cache = <<>>
    /\ tmpFile = {}
    /\ cycles = <<>>

\* one turn of the loop whose SynchronizeGames returns or raises
SynchronizeGamesSettles ==
    /\ pc = "sync"
    /\ index <= Len(syncEngines)
    /\ LoopTurn(syncEngines[index], environment[syncEngines[index]])

\* the child process of the scanner the loop is at never exits
ExternalCallNeverReturns ==
    /\ pc = "sync"
    /\ index <= Len(syncEngines)
    /\ syncEngines[index] \in AwaitingChildProcess
    /\ pc' = "awaiting"
    /\ outcome' = [outcome EXCEPT ![syncEngines[index]] = "pending"]
    /\ UNCHANGED <<preferences, syncEngines, index, allGames, toasts, SynchronizedGames,
                   environment, dispatchVars, setupVars>>

NextLive ==
    \/ LoadGames
    \/ SynchronizeGamesSettles
    \/ ExternalCallNeverReturns
    \/ SortAndReturn

\* the event loop runs every continuation that is ready
SpecLive == InitLive /\ [][NextLive]_vars /\ WF_vars(NextLive)

NextReturning ==
    \/ LoadGames
    \/ SynchronizeGamesSettles
    \/ SortAndReturn

\* loadGames when every external call returns or fails
SpecReturning == InitLive /\ [][NextReturning]_vars /\ WF_vars(NextReturning)

(***************************************************************************)
(* A scanner on its own: one SynchronizeGames call of one engine, on any   *)
(* installation of the scanner's bounded set.                              *)
(***************************************************************************)
\* the preferences play no part in a scan of one engine
NoPreferences ==
    [enableSteam |-> FALSE, enableEpicGames |-> FALSE, enableGOG |-> FALSE,
     enablePlaynite |-> FALSE, enableXbox |-> FALSE, sortOrder |-> "lastPlayed",
     enableUbisoft |-> FALSE, enableEAApp |-> FALSE,
     customDirs |-> CustomDirs(UnsetSlot, UnsetSlot)]

InitScan ==
    /\ preferences = NoPreferences
    /\ syncEngines = <<>>
    /\ pc = "scan"
    /\ index = 0
    /\ allGames = <<>>
    /\ toasts = <<>>
    /\ SynchronizedGames = [e \in Engines |-> <<>>]
    /\ outcome = [e \in Engines |-> "idle"]
    /\ environment = NoEnvironment
    /\ shell = <<>>
    /\ mainWindow = "open"
    /\ disk = {}
    /\ calls = <<>>
    /\ setupState = [step |-> "status", error |-> Undefined, gamesFound |-> Undefined]
    /\ cache = <<>>
    /\ tmpFile = {}
    /\ cycles = <<>>

\* no engine has been run yet
ScanReady ==
    /\ pc = "scan"
    /\ \A e \in Engines : outcome[e] = "idle"

\* SynchronizeGames of the engine PlatformName on env, ending with result
Scan(PlatformName, env, result) ==
    /\ environment' = env
    /\ SynchronizedGames' = [SynchronizedGames EXCEPT ![PlatformName] = result.games]
    /\ outcome' = [outcome EXCEPT ![PlatformName] = IF result.raised THEN "raised" ELSE "returned"]
    /\ UNCHANGED <<preferences, syncEngines, pc, index, allGames, toasts, dispatchVars, setupVars>>

ScanSteam ==
    /\ ScanReady
    /\ \E env \in SteamEnvs : Scan(SteamPlatformName, env, SteamSynchronizeGames(env))

ScanEpic ==
    /\ ScanReady
    /\ \E env \in EpicEnvs : Scan(EpicPlatformName, env, EpicSynchronizeGames(env))

ScanGOG ==
    /\ ScanReady
    /\ \E env \in GOGEnvs : Scan(GOGPlatformName, env, GOGSynchronizeGames(env))

ScanPlaynite ==
    /\ ScanReady
    /\ \E env \in PlayniteEnvs : Scan(PlaynitePlatformName, env, PlayniteSynchronizeGames(env))

ScanXbox ==
    /\ ScanReady
    /\ \E env \in XboxEnvs : Scan(XboxPlatformName, env, XboxSynchronizeGames(env))

ScanShortcuts ==
    /\ ScanReady
    /\ \E env \in ShortcutsEnvs : Scan(ShortcutPlatformName, env, ShortcutsSynchronizeGames(env))

ScanEa ==
    /\ ScanReady
    /\ \E env \in RegistryEnvs : Scan(EaPlatformName, env, EaSynchronizeGames(env))

ScanUbisoft ==
    /\ ScanReady
    /\ \E env \in RegistryEnvs : Scan(UbisoftPlatformName, env, UbisoftSynchronizeGames(env))

\* the installations a second scan is run on: any local packages and any
\* lists of owned games
XboxRescanEnvs ==
    {[XboxEnv(localApps, owned, <<>>, <<>>) EXCEPT !.debugFile = debugFile] :
        localApps \in DistinctSeqsUpTo({HaloApp, ForzaApp}, 2),
        owned \in OwnedLists,
        debugFile \in DebugFiles}

\* a second SynchronizeGames call of the Xbox engine that has been run: the
\* call starts by emptying the field the first call has filled
RescanXbox ==
    /\ pc = "scan"
    /\ outcome[XboxPlatformName] # "idle"
    /\ \E env \in XboxRescanEnvs :
          LET result == XboxSynchronizeGames(env)
          IN  /\ environment' = env
              /\ SynchronizedGames' = [SynchronizedGames EXCEPT ![XboxPlatformName] = result.games]
              /\ outcome' = [outcome EXCEPT ![XboxPlatformName] =
                                IF result.raised THEN "raised" ELSE "returned"]
    /\ calls' = Append(calls, [op |-> "SynchronizeGames", engine |-> XboxPlatformName,
                               before |-> SynchronizedGames[XboxPlatformName]])
    /\ pc' = "rescanned"
    /\ UNCHANGED <<preferences, syncEngines, index, allGames, toasts, shell, mainWindow, disk,
                   setupVars>>

NextScan ==
    \/ RescanXbox
    \/ ScanSteam
    \/ ScanEpic
    \/ ScanGOG
    \/ ScanPlaynite
    \/ ScanXbox
    \/ ScanShortcuts
    \/ ScanEa
    \/ ScanUbisoft

SpecScan == InitScan /\ [][NextScan]_vars

(***************************************************************************)
(* launch-game.tsx: launchGame and uninstallGame, the handlers of the      *)
(* "Launch Game" and "Uninstall Game" actions of a listed game.  A handler *)
(* is the list of what it does, in order: an execAsync call (the command   *)
(* line and the cwd option, Undefined when none is given), a showToast     *)
(* call or closeMainWindow.  succeeds says whether the execAsync call      *)
(* resolves.                                                               *)
(***************************************************************************)
MaxCalls == 2

ExecAsync(command, cwd) == [kind |-> "execAsync", command |-> command, cwd |-> cwd]

ShowToast(toast) == [kind |-> "showToast", toast |-> toast]

CloseMainWindow == [kind |-> "closeMainWindow"]

\* a launchGame that runs the command a second time when it fails
launchGameWithRetry(game, succeeds) ==
    LET start == ExecAsync("start \"\" \"" \o game.launchCommand \o "\"", Undefined)
    IN  IF succeeds
        THEN <<start,
               ShowToast(Toast("Success", "Game launched", "Launched " \o Join(game.title))),
               CloseMainWindow>>
        ELSE <<start, start,
               ShowToast(Toast("Failure", "Launch failed", "Failed to launch " \o Join(game.title)))>>

\* launchGame: both branches of the test on "playnite://" run the same
\* command; the game's runTask is not called
launchGame(game, succeeds) ==
    LET start == ExecAsync("start \"\" \"" \o game.launchCommand \o "\"", Undefined)
    IN  IF succeeds
        THEN <<start,
               ShowToast(Toast("Success", "Game launched", "Launched " \o Join(game.title))),
               CloseMainWindow>>
        ELSE <<start,
               ShowToast(Toast("Failure", "Launch failed", "Failed to launch " \o Join(game.title)))>>

\* an uninstallGame without the test of uninstallCommand
uninstallGameUnguarded(game, succeeds) ==
    <<ExecAsync("start \"\" \"" \o ToStr(game.uninstallCommand) \o "\"", Undefined),
      IF succeeds
      THEN ShowToast(Toast("Success", "Uninstall started", "Started uninstall for " \o Join(game.title)))
      ELSE ShowToast(Toast("Failure", "Uninstall failed", "Failed to uninstall " \o Join(game.title)))>>

\* uninstallGame
uninstallGame(game, succeeds) ==
    IF ~Truthy(game.uninstallCommand)
    THEN <<ShowToast(Toast("Failure", "Uninstall not available",
                           Join(game.title) \o " cannot be uninstalled from here"))>>
    ELSE <<ExecAsync("start \"\" \"" \o game.uninstallCommand \o "\"", Undefined),
           IF succeeds
           THEN ShowToast(Toast("Success", "Uninstall started",
                                "Started uninstall for " \o Join(game.title)))
           ELSE ShowToast(Toast("Failure", "Uninstall failed",
                                "Failed to uninstall " \o Join(game.title)))>>

\* the events of one kind among events, in order
EventsOf(kind, events) == SelectSeq(events, LAMBDA e : e.kind = kind)

\* the installations whose games are listed: one of the shortcut directories,
\* one of GOG and one of the Xbox packages
DispatchEnvs ==
    [shortcuts : {ShortcutsEnv(CustomDirs(Slot(GamesDir, "My Games", TRUE), Slot(AppsDir, Undefined, TRUE)),
                               dirs, {IconTarget}) : dirs \in LoadFileSystems},
     gog : GOGLoadEnvs,
     xbox : XboxLoadEnvs]

\* the games loadGames returns on an installation, in the order of the loop
LoadedGames(env) ==
    pushGames(pushGames(pushGames(<<>>, GOGSynchronizeGames(env.gog)),
                        XboxSynchronizeGames(env.xbox)),
              ShortcutsSynchronizeGames(env.shortcuts))

\* the shortcut files of an installation
ShortcutFiles(env) ==
    UNION {{f.path : f \in Range(getAllFilesRecursively(dirPath, env))} : dirPath \in DOMAIN env.dirs}

\* the list of games is shown; nothing has been launched or uninstalled yet
InitDispatch ==
    /\ preferences = NoPreferences
    /\ syncEngines = <<>>
    /\ pc = "done"
    /\ index = 0
    /\ environment \in DispatchEnvs
    /\ allGames = LoadedGames(environment)
    /\ toasts = <<>>
    /\ SynchronizedGames = [e \in Engines |-> <<>>]
    /\ outcome = [e \in Engines |-> "idle"]
    /\ shell = <<>>
    /\ mainWindow = "open"
    /\ disk = ShortcutFiles(environment.shortcuts)
    /\ calls = <<>>
    /\ setupState = [step |-> "status", error |-> Undefined, gamesFound |-> Undefined]
    /\ cache = <<>>
    /\ tmpFile = {}
    /\ cycles = <<>>

\* one call of a handler on a listed game: what it does, in order.  A
\* command "start" opens its target and leaves the files where they are
Dispatch(op, game, succeeds, events) ==
    LET execs == EventsOf("execAsync", events)
        shown == EventsOf("showToast", events)
    IN  /\ shell' = shell \o [i \in DOMAIN execs |-> [command |-> execs[i].command, cwd |-> execs[i].cwd]]
        /\ toasts' = toasts \o [i \in DOMAIN shown |-> shown[i].toast]
        /\ mainWindow' = IF EventsOf("closeMainWindow", events) # <<>> THEN "closed" ELSE mainWindow
        /\ disk' = disk
        /\ calls' = Append(calls, [op |-> op, game |-> game, succeeds |-> succeeds, events |-> events])
        /\ UNCHANGED <<preferences, syncEngines, pc, index, allGames, SynchronizedGames, outcome,
                       environment, setupVars>>

\* the window is open on the list and a further action can be taken
DispatchReady ==
    /\ pc = "done"
    /\ mainWindow = "open"
    /\ Len(calls) < MaxCalls

LaunchGame ==
    /\ DispatchReady
    /\ \E i \in DOMAIN allGames, succeeds \in BOOLEAN :
          Dispatch("launchGame", allGames[i], succeeds, launchGame(allGames[i], succeeds))

UninstallGame ==
    /\ DispatchReady
    /\ \E i \in DOMAIN allGames, succeeds \in BOOLEAN :
          Dispatch("uninstallGame", allGames[i], succeeds, uninstallGame(allGames[i], succeeds))

NextDispatch ==
    \/ LaunchGame
    \/ UninstallGame

SpecDispatch == InitDispatch /\ [][NextDispatch]_vars

(***************************************************************************)
(* setup-xbox.tsx: the "Set up Xbox Games" command.  Its state is [step,   *)
(* error, gamesFound].  processToken, authenticateWithCode and             *)
(* getUserOwnedGames are each the list of what a call does, in order       *)
(* (setState, showToast and cache.set calls), together with how the call   *)
(* ends: with a value, or with the message of the Error thrown.            *)
(*                                                                         *)
(* The redirect URL the user pasted is [blank, redirect, wellFormed, code, *)
(* error, description]: whether its trim is empty, whether it contains     *)
(* "login.live.com/oauth20_desktop.srf", whether new URL accepts it, and   *)
(* its query parameters (Undefined when absent).  The network is [token,   *)
(* xbox, xsts, titles], the response to each of the four requests: [kind,  *)
(* ...] with kind "network" (the request fails, with a message), "http" (a *)
(* status of 400 or more, with the body text), "text" (a body that is not  *)
(* JSON) or "json" (the parsed body).  local is [writeThrows, apps]:       *)
(* whether writeFileSync of the script fails, and what the package listing *)
(* yields (nothing when PowerShell fails).                                 *)
(***************************************************************************)
SetupState(step, error, gamesFound) == [step |-> step, error |-> error, gamesFound |-> gamesFound]

SetState(state) == [kind |-> "setState", state |-> state]

CacheSet(key, value) == [kind |-> "cache.set", key |-> key, value |-> value]

\* how a call ends, and what it did
Thrown(message, events) == [thrown |-> TRUE, message |-> message, events |-> events]

Returned(value, events) == [thrown |-> FALSE, value |-> value, events |-> events]

\* makeRequest
makeRequest(hostname, path, response) ==
    CASE response.kind = "network" -> Thrown(response.message, <<>>)
      [] response.kind = "http" ->
            Thrown("HTTP " \o response.status \o ": " \o response.text, <<>>)
      [] response.kind = "text" ->
            Thrown("Invalid JSON response from " \o hostname \o path \o ": " \o response.text \o "...",
                   <<>>)
      [] response.kind = "json" -> Returned(response.json, <<>>)

\* the TypeError of reading DisplayClaims.xui of a body without DisplayClaims
NoDisplayClaims == "Cannot read properties of undefined (reading 'xui')"

\* authenticateWithCode
authenticateWithCode(code, net) ==
    LET tokenRes == makeRequest("login.live.com", "/oauth20_token.srf", net.token)
        xboxRes == makeRequest("user.auth.xboxlive.com", "/user/authenticate", net.xbox)
        xstsRes == makeRequest("xsts.auth.xboxlive.com", "/xsts/authorize", net.xsts)
    IN  IF tokenRes.thrown THEN tokenRes
        ELSE IF xboxRes.thrown THEN xboxRes
        ELSE IF ~xboxRes.value.DisplayClaims.some THEN Thrown(NoDisplayClaims, <<>>)
        ELSE IF xstsRes.thrown THEN xstsRes
        ELSE IF ~xstsRes.value.DisplayClaims.some THEN Thrown(NoDisplayClaims, <<>>)
        ELSE LET result == [userHash |-> xboxRes.value.DisplayClaims.val,
                            xstsToken |-> xstsRes.value.Token,
                            xuid |-> xstsRes.value.DisplayClaims.val]
             IN  Returned(result, <<CacheSet("xbox-auth-tokens", result)>>)

RECURSIVE ownedTitles(_, _)
\* the loop of getUserOwnedGames: the package family names of the titles of
\* type "Game", each once, in the order of their first title
ownedTitles(titles, ownedGames) ==
    IF titles = <<>> THEN ownedGames
    ELSE LET title == Head(titles)
         IN  IF title.type = "Game" /\ Truthy(title.pfn) /\ title.pfn \notin Range(ownedGames)
             THEN ownedTitles(Tail(titles), Append(ownedGames, title.pfn))
             ELSE ownedTitles(Tail(titles), ownedGames)

\* gameDetails: for each owned package family name, the name of its last title
titleDetails(titles) ==
    LET games == SelectSeq(titles, LAMBDA title : title.type = "Game" /\ Truthy(title.pfn))
    IN  [pfn \in {games[i].pfn : i \in DOMAIN games} |->
            games[CHOOSE i \in DOMAIN games :
                      /\ games[i].pfn = pfn
                      /\ \A j \in DOMAIN games : games[j].pfn = pfn => j <= i].name]

\* getUserOwnedGames
getUserOwnedGames(net) ==
    LET res == makeRequest("titlehub.xboxlive.com", "/users/xuid/titles/titlehistory/decoration/detail",
                           net.titles)
    IN  IF res.thrown THEN res
        ELSE LET titles == IF res.value.titles.some THEN res.value.titles.val ELSE <<>>
                 ownedGames == ownedTitles(titles, <<>>)
             IN  Returned(Range(ownedGames),
                          <<CacheSet("xbox-owned-games-pfns", ownedGames),
                            CacheSet("xbox-game-details", titleDetails(titles))>>)

\* getUWPApps of the setup command: writeFileSync is outside its try block
setupGetUWPApps(local) ==
    IF local.writeThrows
    THEN Thrown("EACCES: permission denied, open 'getUWPApps.ps1'", <<>>)
    ELSE Returned(local.apps, <<>>)

\* a catch block that shows the toast and leaves the state as it is
processTokenFailedNoReset(events, errorMessage) ==
    events \o <<ShowToast(Toast("Failure", "Authentication failed", errorMessage))>>

\* the catch block of processToken, after the events done before the throw
processTokenFailed(events, errorMessage) ==
    events \o <<SetState(SetupState("status", errorMessage, Undefined)),
                ShowToast(Toast("Failure", "Authentication failed", errorMessage))>>

\* processToken
processToken(redirectUrl, net, local) ==
    LET begun == <<SetState(SetupState("processing", Undefined, Undefined)),
                   ShowToast(Toast("Animated", "Processing authentication...",
                                   "This may take a moment"))>>
        auth == authenticateWithCode(redirectUrl.code, net)
        authenticated == begun \o auth.events
                           \o <<ShowToast(Toast("Animated", "Getting your games...",
                                                "Fetching owned Xbox games"))>>
        owned == getUserOwnedGames(net)
        fetched == authenticated \o owned.events
                     \o <<ShowToast(Toast("Animated", "Matching local games...",
                                          "Finding installed Xbox games"))>>
        localApps == setupGetUWPApps(local)
    IN  IF redirectUrl.blank
        THEN processTokenFailed(begun, "Please enter the redirect URL")
        ELSE IF ~redirectUrl.redirect
        THEN processTokenFailed(begun, "Invalid redirect URL. Make sure you copied the complete URL from the browser.")
        ELSE IF ~redirectUrl.wellFormed
        THEN processTokenFailed(begun, "Invalid URL")
        ELSE IF Truthy(redirectUrl.error)
        THEN processTokenFailed(begun, "OAuth error: " \o redirectUrl.error \o " - "
                                          \o OrElse(redirectUrl.description, "Unknown error"))
        ELSE IF ~Truthy(redirectUrl.code)
        THEN processTokenFailed(begun, "No authorization code found in URL. Make sure you copied the complete redirect URL.")
        ELSE IF auth.thrown THEN processTokenFailed(begun, auth.message)
        ELSE IF owned.thrown THEN processTokenFailed(authenticated, owned.message)
        ELSE IF localApps.thrown THEN processTokenFailed(fetched, localApps.message)
        ELSE LET matchedGames ==
                     Cardinality({i \in DOMAIN localApps.value :
                                     localApps.value[i].PackageFamilyName \in owned.value})
             IN  fetched \o <<SetState(SetupState("complete", Undefined, matchedGames)),
                              ShowToast(Toast("Success", "Xbox setup complete!",
                                              "Found " \o ToString(matchedGames) \o " Xbox games"))>>

(***************************************************************************)
(* The runs of the setup command: the redirect URLs, the responses and the *)
(* package listings processToken is run on.                                *)
(***************************************************************************)
MaxRuns == 1

MaxTitles == 2

RedirectUrl(blank, redirect, wellFormed, code, error, description) ==
    [blank |-> blank, redirect |-> redirect, wellFormed |-> wellFormed, code |-> code,
     error |-> error, description |-> description]

GoodRedirectUrl == RedirectUrl(FALSE, TRUE, TRUE, "M.C507_BAY", Undefined, Undefined)

BadRedirectUrls ==
    {RedirectUrl(TRUE, FALSE, FALSE, Undefined, Undefined, Undefined),
     RedirectUrl(FALSE, FALSE, TRUE, "M.C507_BAY", Undefined, Undefined),
     RedirectUrl(FALSE, TRUE, FALSE, Undefined, Undefined, Undefined),
     RedirectUrl(FALSE, TRUE, TRUE, Undefined, "access_denied", Undefined),
     RedirectUrl(FALSE, TRUE, TRUE, "M.C507_BAY", "access_denied", "The user denied access"),
     RedirectUrl(FALSE, TRUE, TRUE, Undefined, Undefined, Undefined),
     RedirectUrl(FALSE, TRUE, TRUE, "", Undefined, Undefined)}

NetworkError == [kind |-> "network", message |-> "getaddrinfo ENOTFOUND login.live.com"]

HttpError(status) == [kind |-> "http", status |-> status, text |-> "{\"error\":\"invalid_grant\"}"]

NotJson == [kind |-> "text", text |-> "<html>"]

Json(json) == [kind |-> "json", json |-> json]

TokenResponse == Json([access_token |-> "EwA"])

ClaimsResponse(claims) == Json([Token |-> "eyJ", DisplayClaims |-> claims])

Title(type, pfn, name) == [type |-> type, pfn |-> pfn, name |-> name]

Titles ==
    {Title("Game", "Halo_8wekyb", Portal), Title("Game", "Halo_8wekyb", Doom),
     Title("Game", "Forza_8wekyb", Doom), Title("Game", Undefined, Doom),
     Title("App", "Edge_8wekyb", Portal)}

TitlesResponses ==
    {Json([titles |-> None])} \cup {Json([titles |-> Some(titles)]) : titles \in SeqsUpTo(Titles, MaxTitles)}

Network(token, xbox, xsts, titles) == [token |-> token, xbox |-> xbox, xsts |-> xsts, titles |-> titles]

GoodClaims == ClaimsResponse(Some("2533"))

\* the networks on which every request succeeds, and those on which one
\* request fails, the requests before it succeeding
GoodNetworks == {Network(TokenResponse, GoodClaims, GoodClaims, titles) : titles \in TitlesResponses}

BadNetworks ==
    {Network(token, GoodClaims, GoodClaims, Json([titles |-> None])) :
        token \in {NetworkError, HttpError("400"), NotJson}}
    \cup {Network(TokenResponse, xbox, GoodClaims, Json([titles |-> None])) :
            xbox \in {HttpError("401"), ClaimsResponse(None)}}
    \cup {Network(TokenResponse, GoodClaims, xsts, Json([titles |-> None])) :
            xsts \in {HttpError("401"), ClaimsResponse(None)}}
    \cup {Network(TokenResponse, GoodClaims, GoodClaims, titles) :
            titles \in {HttpError("500"), NetworkError}}

LocalListing(writeThrows, apps) == [writeThrows |-> writeThrows, apps |-> apps]

LocalListings ==
    {LocalListing(FALSE, <<>>), LocalListing(FALSE, <<HaloApp, ForzaApp>>), LocalListing(TRUE, <<>>)}

SetupInput(redirectUrl, net, local) == [redirectUrl |-> redirectUrl, net |-> net, local |-> local]

SetupInputs ==
    {SetupInput(redirectUrl, Network(TokenResponse, GoodClaims, GoodClaims, Json([titles |-> None])),
                LocalListing(FALSE, <<>>)) : redirectUrl \in BadRedirectUrls}
    \cup {SetupInput(GoodRedirectUrl, net, LocalListing(FALSE, <<HaloApp, ForzaApp>>)) :
            net \in GoodNetworks \cup BadNetworks}
    \cup {SetupInput(GoodRedirectUrl,
                     Network(TokenResponse, GoodClaims, GoodClaims,
                             Json([titles |-> Some(<<Title("Game", "Halo_8wekyb", Portal)>>)])),
                     local) : local \in LocalListings}

(***************************************************************************)
(* The setup command as a state machine: the actions of its screens.       *)
(***************************************************************************)
InitSetup ==
    /\ preferences = NoPreferences
    /\ syncEngines = <<>>
    /\ pc = "setup"
    /\ index = 0
    /\ allGames = <<>>
    /\ toasts = <<>>
    /\ SynchronizedGames = [e \in Engines |-> <<>>]
    /\ outcome = [e \in Engines |-> "idle"]
    /\ environment = NoEnvironment
    /\ shell = <<>>
    /\ mainWindow = "open"
    /\ disk = {}
    /\ calls = <<>>
    /\ setupState = SetupState("status", Undefined, Undefined)
    /\ cache = <<>>
    /\ tmpFile = {}
    /\ cycles = <<>>

\* setState({ step }) by an action of a screen
GoToStep(step) ==
    /\ setupState' = SetupState(step, Undefined, Undefined)
    /\ UNCHANGED <<preferences, syncEngines, pc, index, allGames, toasts, SynchronizedGames, outcome,
                   environment, dispatchVars, cache, tmpFile, cycles>>

\* startAuth
StartAuth ==
    /\ pc = "setup"
    /\ setupState.step = "status"
    /\ GoToStep("auth")

\* "I've Signed In" on the auth screen
OpenTokenInput ==
    /\ pc = "setup"
    /\ setupState.step = "auth"
    /\ GoToStep("token-input")

\* "Back" on the token screen
BackToAuth ==
    /\ pc = "setup"
    /\ setupState.step = "token-input"
    /\ GoToStep("auth")

\* "Cancel" on the auth and token screens, "Done" on the complete screen
BackToStatus ==
    /\ pc = "setup"
    /\ setupState.step \in {"auth", "token-input", "complete"}
    /\ GoToStep("status")

\* "Complete Setup" on the token screen: one call of processToken
ProcessToken ==
    /\ pc = "setup"
    /\ setupState.step = "token-input"
    /\ Len(calls) < MaxRuns
    /\ \E input \in SetupInputs :
          LET events == processToken(input.redirectUrl, input.net, input.local)
              states == EventsOf("setState", events)
              shown == EventsOf("showToast", events)
              sets == EventsOf("cache.set", events)
          IN  /\ setupState' = states[Len(states)].state
              /\ toasts' = toasts \o [i \in DOMAIN shown |-> shown[i].toast]
              /\ cache' = cache \o [i \in DOMAIN sets |-> [key |-> sets[i].key, value |-> sets[i].value]]
              /\ calls' = Append(calls, [op |-> "processToken", input |-> input, events |-> events])
    /\ UNCHANGED <<preferences, syncEngines, pc, index, allGames, SynchronizedGames, outcome,
                   environment, shell, mainWindow, disk, tmpFile, cycles>>

NextSetup ==
    \/ StartAuth
    \/ OpenTokenInput
    \/ BackToAuth
    \/ BackToStatus
    \/ ProcessToken

SpecSetup == InitSetup /\ [][NextSetup]_vars

(***************************************************************************)
(* Overlapping cycles.  loadGames is started again by "Reload Games" while *)
(* an earlier call is still awaiting a scanner, and the setup command      *)
(* lists the local packages in a process of its own; all of them write,    *)
(* run and remove the script files of tmpdir() under the same names.  A    *)
(* cycle is [kind, at, localApps, startApps, games]: kind is "scan" (the   *)
(* Xbox scanner) or "setup" (getUWPApps of the setup command), at is the   *)
(* call the cycle is awaiting, localApps and startApps are what its        *)
(* PowerShell runs printed, games is the scanner's SynchronizedGames.      *)
(***************************************************************************)
MaxCycles == 2

Cycle(kind, at, localApps, startApps, games) ==
    [kind |-> kind, at |-> at, localApps |-> localApps, startApps |-> startApps, games |-> games]

\* the script file a cycle awaiting the call at has written
ScriptOf(at) == IF at \in {"getUWPApps", "getUWPApps-ran"} THEN "getUWPApps.ps1" ELSE "getStartApps.ps1"

\* the machines the cycles run on: local packages, a cached list and Start Apps
OverlapEnvs ==
    {XboxEnv(<<HaloApp, ForzaApp>>, Some({"Halo_8wekyb"}), "Halo_8wekyb" :> Portal, <<>>),
     XboxEnv(<<ForzaApp, HaloApp>>, Some({"Halo_8wekyb", "Forza_8wekyb"}), <<>>,
             <<StartApp("Halo_8wekyb!Game", "Halo_8wekyb", TRUE)>>),
     XboxEnv(<<HaloApp>>, None, <<>>, <<>>)}

InitOverlap ==
    /\ preferences = NoPreferences
    /\ syncEngines = <<>>
    /\ pc = "cycles"
    /\ index = 0
    /\ allGames = <<>>
    /\ toasts = <<>>
    /\ SynchronizedGames = [e \in Engines |-> <<>>]
    /\ outcome = [e \in Engines |-> "idle"]
    /\ environment \in OverlapEnvs
    /\ shell = <<>>
    /\ mainWindow = "open"
    /\ disk = {}
    /\ calls = <<>>
    /\ setupState = SetupState("status", Undefined, Undefined)
    /\ cache = <<>>
    /\ tmpFile = {}
    /\ cycles = <<>>

\* a cycle starts: getUWPApps writes its script file and starts PowerShell
StartCycle(kind) ==
    /\ pc = "cycles"
    /\ Len(cycles) < MaxCycles
    /\ tmpFile' = tmpFile \cup {"getUWPApps.ps1"}
    /\ cycles' = Append(cycles, Cycle(kind, "getUWPApps", <<>>, <<>>, <<>>))
    /\ UNCHANGED <<preferences, syncEngines, pc, index, allGames, toasts, SynchronizedGames, outcome,
                   environment, dispatchVars, setupState, cache>>

\* SynchronizeGames of the Xbox scanner up to the await in getUWPApps
StartScan ==
    /\ pc = "cycles"
    /\ StartCycle("scan")

\* processToken of the setup command up to the await in getUWPApps
StartSetupListing ==
    /\ pc = "cycles"
    /\ StartCycle("setup")

\* the PowerShell process of a cycle opens its script file: it prints the
\* listing when the file is there, and fails when the file is gone
PowerShellRuns ==
    /\ pc = "cycles"
    /\ \E c \in DOMAIN cycles :
          /\ cycles[c].at \in {"getUWPApps", "getStartApps"}
          /\ cycles' =
                [cycles EXCEPT
                    ![c] = IF cycles[c].at = "getUWPApps"
                           THEN [@ EXCEPT !.at = "getUWPApps-ran",
                                          !.localApps = IF ScriptOf(cycles[c].at) \in tmpFile
                                                        THEN environment.localApps ELSE <<>>]
                           ELSE [@ EXCEPT !.at = "getStartApps-ran",
                                          !.startApps = IF ScriptOf(cycles[c].at) \in tmpFile
                                                        THEN environment.startApps ELSE <<>>]]
    /\ UNCHANGED <<preferences, syncEngines, pc, index, allGames, toasts, SynchronizedGames, outcome,
                   environment, dispatchVars, setupState, cache, tmpFile>>

\* the rest of SynchronizeGames on what the two PowerShell runs printed
gamesOfCycle(cycle, env) ==
    XboxSynchronizeGames([env EXCEPT !.localApps = cycle.localApps,
                                     !.startApps = cycle.startApps]).games

\* the finally block of getUWPApps or getStartApps removes the script file,
\* and the cycle goes on to its next await or to its end
CleanUp ==
    /\ pc = "cycles"
    /\ \E c \in DOMAIN cycles :
          LET ownedGames == getOwnedGamesFromCache(environment)
          IN  /\ cycles[c].at \in {"getUWPApps-ran", "getStartApps-ran"}
              /\ tmpFile' = tmpFile \ {ScriptOf(cycles[c].at)}
              /\ cycles' =
                    [cycles EXCEPT
                        ![c] = IF cycles[c].kind = "setup"
                               THEN [@ EXCEPT !.at = "done"]
                               ELSE IF cycles[c].at = "getUWPApps-ran"
                               THEN IF ~ownedGames.some \/ ownedGames.val = {}
                                    THEN [@ EXCEPT !.at = "done"]
                                    ELSE [@ EXCEPT !.at = "listed"]
                               ELSE [@ EXCEPT !.at = "done",
                                              !.games = gamesOfCycle(cycles[c], environment)]]
    /\ UNCHANGED <<preferences, syncEngines, pc, index, allGames, toasts, SynchronizedGames, outcome,
                   environment, dispatchVars, setupState, cache>>

\* getStartApps writes its script file and starts PowerShell
GetStartApps ==
    /\ pc = "cycles"
    /\ \E c \in DOMAIN cycles :
          /\ cycles[c].at = "listed"
          /\ tmpFile' = tmpFile \cup {"getStartApps.ps1"}
          /\ cycles' = [cycles EXCEPT ![c].at = "getStartApps"]
    /\ UNCHANGED <<preferences, syncEngines, pc, index, allGames, toasts, SynchronizedGames, outcome,
                   environment, dispatchVars, setupState, cache>>

NextOverlap ==
    \/ StartScan
    \/ StartSetupListing
    \/ PowerShellRuns
    \/ CleanUp
    \/ GetStartApps

SpecOverlap == InitOverlap /\ [][NextOverlap]_vars

(***************************************************************************)
(* Properties of loadGames (specification Spec).                           *)
(***************************************************************************)
\* how many times g occurs in the list games
Count(games, g) == Cardinality({i \in DOMAIN games : games[i] = g})

\* the engines whose turn of the loop is over, in the order of the loop
EnginesRun == SubSeq(syncEngines, 1, index - 1)

\* the games in discovery order: the lists of the engines that returned,
\* one after the other in the order of the loop
Discovered ==
    Concat([i \in DOMAIN EnginesRun |->
               IF outcome[EnginesRun[i]] = "returned"
               THEN SynchronizedGames[EnginesRun[i]]
               ELSE <<>>])

\* C1: whatever the enabled scanners are and whichever of them raise, the
\* list loadGames returns holds every game of every scanner that did not
\* raise, as many times as the scanner produced it.
C1_NonRaisingScannersKept ==
    pc = "done" =>
        \A e \in Range(syncEngines) :
            outcome[e] = "returned" =>
                \A g \in Range(SynchronizedGames[e]) :
                    Count(allGames, g) >= Count(SynchronizedGames[e], g)

\* a scan in which a scanner that found games is followed by one that raises
C1_Witness ==
    /\ pc = "done"
    /\ \E i, j \in DOMAIN syncEngines :
          /\ i < j
          /\ outcome[syncEngines[i]] = "returned"
          /\ SynchronizedGames[syncEngines[i]] # <<>>
          /\ outcome[syncEngines[j]] = "raised"
    /\ \E k \in DOMAIN syncEngines :
          outcome[syncEngines[k]] = "returned" /\ SynchronizedGames[syncEngines[k]] # <<>>

\* the failure notifications that name the scanner e
FailureToastsOf(e) ==
    {i \in DOMAIN toasts :
        toasts[i].style = "Failure" /\ toasts[i].title = e \o " detection failed"}

\* C2: in a scan cycle every scanner that raised has exactly one failure
\* notification naming its PlatformName and none of its games is in the merged
\* list (the merged list holds the games of the scanners that returned, and
\* nothing else); a scanner that did not raise has no failure notification.
C2_OneFailureToastPerRaisingScanner ==
    /\ \A e \in Engines :
          Cardinality(FailureToastsOf(e)) = IF outcome[e] = "raised" THEN 1 ELSE 0
    /\ \A i \in DOMAIN toasts :
          toasts[i].style = "Failure" => \E e \in Engines : i \in FailureToastsOf(e)
    /\ \A g \in Range(allGames) \cup Range(Discovered) :
          Count(allGames, g) = Count(Discovered, g)

\* a finished scan in which a scanner raised with games in its
\* SynchronizedGames, and another scanner returned games
C2_Witness ==
    /\ pc = "done"
    /\ \E e \in Range(syncEngines) : outcome[e] = "raised" /\ SynchronizedGames[e] # <<>>
    /\ \E e \in Range(syncEngines) : outcome[e] = "returned" /\ SynchronizedGames[e] # <<>>
    /\ allGames # <<>>

\* C4: two games of the merged list that come from two different scanners
\* never have the same id, whatever the vendor identifiers are, those of the
\* Playnite and Xbox scanners included.
C4_IdsDistinctAcrossScanners ==
    pc = "done" =>
        \A e1, e2 \in Range(syncEngines) :
            (e1 # e2 /\ outcome[e1] = "returned" /\ outcome[e2] = "returned") =>
                \A g1 \in Range(SynchronizedGames[e1]), g2 \in Range(SynchronizedGames[e2]) :
                    g1.id # g2.id

\* the labels the platform order names, in their priority order
RecognizedLabels == <<"Steam", "Epic Games", "GOG", "Xbox", "Playnite">>

\* C5: with sortOrder = platform, in the returned list no game with a
\* recognized label comes after a game with an unrecognized label, and the
\* games with recognized labels follow the order Steam, Epic Games, GOG, Xbox,
\* Playnite.
C5_PlatformOrder ==
    (pc = "done" /\ preferences.sortOrder = "platform") =>
        \A i, j \in DOMAIN allGames :
            (i < j /\ IndexOf(RecognizedLabels, allGames[j].platform) # 0) =>
                /\ IndexOf(RecognizedLabels, allGames[i].platform) # 0
                /\ IndexOf(RecognizedLabels, allGames[i].platform)
                      <= IndexOf(RecognizedLabels, allGames[j].platform)

\* a list sorted by platform in which an Xbox game, discovered after a game
\* labelled Playnite and after one labelled GOG Galaxy, precedes both
C5_Witness ==
    /\ pc = "done"
    /\ preferences.sortOrder = "platform"
    /\ \E i, j, k \in DOMAIN allGames :
          /\ i < j /\ j < k
          /\ allGames[i].platform = XboxPlatformName
          /\ allGames[j].platform = PlaynitePlatformName
          /\ allGames[k].platform = GOGPlatformName
    /\ Discovered # allGames

\* a and b compare equal under the ordering policy (under lastPlayed nothing
\* is compared: every two games keep their order)
ComparesEqual(sortOrder, a, b) ==
    CASE sortOrder = "alphabetical" -> localeCompare(a.title, b.title) = 0
      [] sortOrder = "platform" -> PlatformRank(a.platform) = PlatformRank(b.platform)
      [] sortOrder = "lastPlayed" -> TRUE

\* C6: under each ordering policy the returned list is a stable ordering of
\* the discovered list (the games that compare equal to a given game are in
\* their discovery order), and ordering the returned list again under the
\* same policy leaves it unchanged.
C6_StableAndIdempotent ==
    pc = "done" =>
        /\ \A g \in Range(Discovered) \cup Range(allGames) :
              SelectSeq(allGames, LAMBDA x : ComparesEqual(preferences.sortOrder, x, g))
                  = SelectSeq(Discovered, LAMBDA x : ComparesEqual(preferences.sortOrder, x, g))
        /\ sortGames(preferences.sortOrder, allGames) = allGames

\* a sorted list that differs from the discovered one and holds two games
\* that compare equal
C6_Witness ==
    /\ pc = "done"
    /\ preferences.sortOrder \in {"alphabetical", "platform"}
    /\ Discovered # allGames
    /\ \E i, j \in DOMAIN allGames :
          i < j /\ ComparesEqual(preferences.sortOrder, allGames[i], allGames[j])

(***************************************************************************)
(* Properties of the scanners (specification SpecScan).                    *)
(***************************************************************************)
\* C3: every Game a scanner emits (Steam, Epic Games, GOG, EA app, Ubisoft
\* Connect, Playnite, Xbox, Shortcuts) has a launchCommand that is set and is
\* not the empty string, whatever record it was made from.
C3_LaunchCommandNonEmpty ==
    \A e \in Engines :
        \A i \in DOMAIN SynchronizedGames[e] :
            /\ SynchronizedGames[e][i].launchCommand # Undefined
            /\ SynchronizedGames[e][i].launchCommand # ""

\* the EA app scanner has emitted a game for a registry entry that has
\* neither an install location nor an uninstall string, so that no
\* executable path was found
C3_Witness ==
    /\ outcome[EaPlatformName] = "returned"
    /\ \E i \in DOMAIN environment.keys :
          /\ environment.keys[i].installPath = Undefined
          /\ environment.keys[i].uninstallString = Undefined
          /\ \E j \in DOMAIN SynchronizedGames[EaPlatformName] :
                SynchronizedGames[EaPlatformName][j].id = "ea-" \o Join(environment.keys[i].keyId)

\* the manifest files of a Steam installation, over all its library folders
ManifestsOf(env) == UNION {Range(env.libraries[i]) : i \in DOMAIN env.libraries}

\* the StateFlags texts of the environments whose integer has the bit of
\* value 4 set: 4, 6 = 4 + 2, 12 = 8 + 4, -4 = ...11111100 and 0x4 = 4
InstalledStateFlags ==
    {Some(<<"4">>), Some(<<"6">>), Some(<<"1", "2">>), Some(<<"-", "4">>), Some(<<"0", "x", "4">>)}

\* C7: the Steam scanner emits a game only for a manifest whose StateFlags,
\* read as an integer, has the bit of value 4 set.  A manifest with appid and
\* name whose StateFlags is 4 has its game in the result; an appid whose
\* manifests all have StateFlags 3, no StateFlags or a non-numeric one has
\* none.
C7_InstalledBit ==
    outcome[SteamPlatformName] = "returned" =>
        /\ \A g \in Range(SynchronizedGames[SteamPlatformName]) :
              \E file \in ManifestsOf(environment) :
                  /\ file.readable
                  /\ file.appid # Undefined
                  /\ g.id = "steam-" \o file.appid
                  /\ file.StateFlags \in InstalledStateFlags
        /\ \A file \in ManifestsOf(environment) :
              (/\ file.readable
               /\ file.appid # Undefined
               /\ file.name = Some(Portal)
               /\ file.StateFlags = Some(<<"4">>)) =>
                  \E g \in Range(SynchronizedGames[SteamPlatformName]) :
                      g.id = "steam-" \o file.appid

\* a library with a manifest of StateFlags 4 and one of StateFlags 3, of
\* which the scan has emitted the first only
C7_Witness ==
    /\ outcome[SteamPlatformName] = "returned"
    /\ \E a, b \in ManifestsOf(environment) :
          /\ a.readable /\ b.readable
          /\ a.appid = "440" /\ a.StateFlags = Some(<<"4">>)
          /\ b.appid = "620" /\ b.StateFlags = Some(<<"3">>)
    /\ Len(SynchronizedGames[SteamPlatformName]) = 1
    /\ SynchronizedGames[SteamPlatformName][1].id = "steam-440"

\* the texts that are well formed, those whose only defect is a comma before
\* the closing brace, and those that no repair makes parse
WellFormedContents == {ValidContent, <<"{", "kv", ",", "kv", "}">>}

OnlyTrailingCommaContents == {TrailingCommaContent, <<"{", "kv", ",", "kv", ",", " ", "}">>}

UnparseableContents == {TruncatedContent, <<"{", "kv", ",", ",", "}">>, <<"x">>}

\* the record is an application with an install location that is a string
\* with a character other than white space
IsInstalledApplication(jObject) ==
    /\ jObject.bIsApplication = JsBool(TRUE)
    /\ jObject.InstallLocation.t = "string"
    /\ \E i \in DOMAIN jObject.InstallLocation.s : jObject.InstallLocation.s[i] # " "

\* the record has every field the scanner asks for, each of its type
IsValidRecord(jObject) ==
    /\ IsInstalledApplication(jObject)
    /\ jObject.CatalogItemId # Undefined
    /\ jObject.DisplayName.some
    /\ jObject.DisplayName.val # <<>>
    /\ jObject.LaunchExecutable.t \in {"undefined", "string"}

\* the metadata files the Epic scanner reads
ItemFilesOf(env) ==
    IF env.manifestsPath /\ env.dirReadable THEN env.files ELSE <<>>

\* the scan can only raise over a record it has accepted and whose
\* LaunchExecutable is neither absent nor a string
RaisesOnlyOnAcceptedRecord ==
    outcome[EpicPlatformName] = "raised" =>
        \E i \in DOMAIN ItemFilesOf(environment) :
            /\ IsInstalledApplication(ItemFilesOf(environment)[i].jObject)
            /\ ItemFilesOf(environment)[i].jObject.LaunchExecutable.t \notin {"undefined", "string"}

\* C8: whatever the metadata files are, the Epic scan does not raise over a
\* file that does not parse; when it returns, every readable file with a
\* valid record whose text is well formed, or has a comma before the closing
\* brace as its only defect, has its game in the result, and the files whose
\* text no repair makes parse have none.
C8_RepairAndSkip ==
    /\ RaisesOnlyOnAcceptedRecord
    /\ outcome[EpicPlatformName] = "returned" =>
          LET files == ItemFilesOf(environment)
              games == SynchronizedGames[EpicPlatformName]
          IN  /\ \A i \in DOMAIN files :
                    (/\ files[i].readable
                     /\ files[i].content \in WellFormedContents \cup OnlyTrailingCommaContents
                     /\ IsValidRecord(files[i].jObject)) =>
                        \E j \in DOMAIN games :
                            /\ games[j].id = "epic-" \o files[i].jObject.AppName
                            /\ games[j].title = files[i].jObject.DisplayName.val
              /\ Len(games) <= Cardinality({i \in DOMAIN files :
                                               files[i].content \notin UnparseableContents})

\* a directory with a truncated file and a file with a trailing comma: the
\* scan has returned the game of the second
C8_Witness ==
    /\ outcome[EpicPlatformName] = "returned"
    /\ environment.files = <<ItemFile(TRUE, TruncatedContent, OtherJObject),
                             ItemFile(TRUE, TrailingCommaContent, GoodJObject)>>
    /\ Len(SynchronizedGames[EpicPlatformName]) = 1
    /\ SynchronizedGames[EpicPlatformName][1].id = "epic-Fortnite"

\* C9: the Epic scanner emits a game only for a record whose bIsApplication
\* is set and whose InstallLocation is present and not empty after trimming:
\* every game of the result is the game of such a record and there are no
\* more games than such records; the other records are skipped, and the scan
\* does not raise over them.
C9_OnlyInstalledApplications ==
    LET files == ItemFilesOf(environment)
        games == SynchronizedGames[EpicPlatformName]
        accepted == {i \in DOMAIN files :
                        files[i].readable /\ IsInstalledApplication(files[i].jObject)}
    IN  /\ outcome[EpicPlatformName] = "raised" =>
              \E i \in accepted : files[i].jObject.LaunchExecutable.t \notin {"undefined", "string"}
        /\ outcome[EpicPlatformName] = "returned" =>
              /\ Len(games) <= Cardinality(accepted)
              /\ \A j \in DOMAIN games :
                    \E i \in accepted :
                        /\ games[j].id = "epic-" \o files[i].jObject.AppName
                        /\ files[i].jObject.DisplayName = Some(games[j].title)

\* a directory with a record that is no application and a valid record: the
\* scan has returned the game of the second only
C9_Witness ==
    /\ outcome[EpicPlatformName] = "returned"
    /\ Len(environment.files) = 2
    /\ environment.files[1].content = ValidContent
    /\ environment.files[1].jObject.bIsApplication = JsBool(FALSE)
    /\ environment.files[1].jObject.InstallLocation = InstallDir
    /\ environment.files[2] = ItemFile(TRUE, ValidContent, OtherJObject)
    /\ Len(SynchronizedGames[EpicPlatformName]) = 1
    /\ SynchronizedGames[EpicPlatformName][1].id = "epic-Sugar"

\* the icon the claim expects for a shortcut file: the target of an IconFile=
\* line that names an existing file when the file is a .url with such a line,
\* the path of the file otherwise
ExpectedIcons(file, env) ==
    LET targets == {file.entry.lines[i].value : i \in
                       {i \in DOMAIN file.entry.lines :
                           /\ file.entry.lines[i].key = "IconFile="
                           /\ file.entry.lines[i].value \in env.existing}}
    IN  IF toLowerCase(file.entry.ext) = <<".", "u", "r", "l">> /\ file.entry.readable /\ targets # {}
        THEN targets
        ELSE {file.path}

\* C10: for every .url or .lnk file found under a configured shortcut
\* directory, the result of the Shortcuts scanner holds exactly one Game of
\* that file with the platform "Shortcut (<name of the directory>)", and its
\* iconPath is the IconFile target for a .url with a usable IconFile= line and
\* the path of the file otherwise.
C10_OneGamePerShortcut ==
    outcome[ShortcutPlatformName] = "returned" =>
        LET directories == getConfiguredDirectories(environment)
            games == SynchronizedGames[ShortcutPlatformName]
        IN  \A d \in DOMAIN directories :
                LET files == getAllFilesRecursively(directories[d].path, environment)
                IN  \A f \in DOMAIN files :
                        toLowerCase(files[f].entry.ext) \in supportedExtensions =>
                            /\ Cardinality({j \in DOMAIN games :
                                               /\ games[j].launchCommand = files[f].path
                                               /\ games[j].platform
                                                     = "Shortcut (" \o directories[d].name \o ")"})
                                  = 1
                            /\ \A j \in DOMAIN games :
                                  games[j].launchCommand = files[f].path =>
                                      games[j].iconPath \in ExpectedIcons(files[f], environment)

(***************************************************************************)
(* Properties of the shortcut directories' enable flags (SpecScan).        *)
(***************************************************************************)
\* the paths of the files found under the directory dirPath
FilesUnder(dirPath, env) ==
    {f.path : f \in Range(getAllFilesRecursively(dirPath, env))}

\* the slots of the scanned configuration whose enable flag is on / off
EnabledSlots == {i \in DOMAIN environment.customDirs : environment.customDirs[i].enable}

DisabledSlots == DOMAIN environment.customDirs \ EnabledSlots

\* C11: after a scan of the shortcut directories in which some directory is
\* enabled, no emitted game is a file of a directory whose customDirNEnable
\* flag is off (its path being configured and existing).
C11_DisabledDirectoryContributesNothing ==
    (outcome[ShortcutPlatformName] # "idle" /\ EnabledSlots # {}) =>
        \A i \in DisabledSlots :
            LET dir == environment.customDirs[i]
            IN  (Truthy(dir.path) /\ dir.path \in DOMAIN environment.dirs) =>
                    \A g \in Range(SynchronizedGames[ShortcutPlatformName]) :
                        g.launchCommand \notin FilesUnder(dir.path, environment)
(***************************************************************************)
(* Properties of the Xbox scanner (SpecScan).                              *)
(***************************************************************************)
\* the scanned installation holds no list of owned games, or an empty one:
\* no list under the cache key and none in the debug file, or the list that
\* is consulted first is empty
NoOwnedGamesCached ==
    \/ environment.owned = None /\ environment.debugFile \in {None, Some({})}
    \/ environment.owned = Some({})

LocalPackages == {app.PackageFamilyName : app \in Range(environment.localApps)}

OwnedIdentifiers ==
    IF environment.owned # None THEN environment.owned.val
    ELSE IF environment.debugFile # None THEN environment.debugFile.val
    ELSE {}

CallsOf(op) == {i \in DOMAIN calls : calls[i].op = op}

\* C14: an uninstallGame call on a game without uninstallCommand shows one
\* notification, titled "Uninstall not available", and runs no shell
\* command; an uninstallGame call runs a shell command only when the game
\* has an uninstallCommand.
C14_UninstallNeedsCommand ==
    \A i \in CallsOf("uninstallGame") :
        LET call == calls[i]
            present == call.game.uninstallCommand \notin {Undefined, ""}
        IN  /\ ~present =>
                /\ EventsOf("execAsync", call.events) = <<>>
                /\ Len(call.events) = 1
                /\ call.events[1].kind = "showToast"
                /\ call.events[1].toast.title = "Uninstall not available"
            /\ EventsOf("execAsync", call.events) # <<>> => present

\* uninstallGame has been called on a game without uninstallCommand and on
\* a game with one
C14_Witness ==
    /\ \E i \in CallsOf("uninstallGame") : calls[i].game.uninstallCommand = Undefined
    /\ \E i \in CallsOf("uninstallGame") : calls[i].game.uninstallCommand # Undefined
    /\ Len(shell) = 1
    /\ Len(toasts) = 2
\* the places of the events of one kind in the list of what a call did
PlacesOf(kind, events) == {k \in DOMAIN events : events[k].kind = kind}

\* C15: every launchGame call runs exactly one shell command.  When the
\* command succeeds the call shows one notification, a success, and closes
\* the main window after it; when the command fails the call shows one
\* notification, a failure whose message names the game, and leaves the
\* window open.  The window is closed only by a launch that succeeded, and
\* the shell has run one command per launchGame call.
C15_OneInvocationPerLaunch ==
    /\ \A i \in CallsOf("launchGame") :
          LET call == calls[i]
              execs == PlacesOf("execAsync", call.events)
              shown == PlacesOf("showToast", call.events)
              closes == PlacesOf("closeMainWindow", call.events)
          IN  /\ Cardinality(execs) = 1
              /\ Cardinality(shown) = 1
              /\ \A e \in execs, t \in shown : e < t
              /\ call.succeeds =>
                    /\ \A t \in shown : call.events[t].toast.style = "Success"
                    /\ Cardinality(closes) = 1
                    /\ \A t \in shown, c \in closes : t < c
              /\ ~call.succeeds =>
                    /\ \A t \in shown :
                          /\ call.events[t].toast.style = "Failure"
                          /\ call.events[t].toast.message = "Failed to launch " \o Join(call.game.title)
                    /\ closes = {}
    /\ mainWindow = "closed" <=> \E i \in CallsOf("launchGame") : calls[i].succeeds
    /\ CallsOf("uninstallGame") = {} => Len(shell) = Cardinality(CallsOf("launchGame"))

\* a launch that failed, followed by a launch that succeeded
C15_Witness ==
    /\ Len(calls) = 2
    /\ calls[1].op = "launchGame" /\ ~calls[1].succeeds
    /\ calls[2].op = "launchGame" /\ calls[2].succeeds
    /\ Len(shell) = 2
    /\ Len(toasts) = 2
    /\ toasts[1].style = "Failure"
    /\ toasts[2].style = "Success"
    /\ mainWindow = "closed"
\* the listed games that the Shortcuts scanner and the GOG scanner produced
ShortcutGames == Range(ShortcutsSynchronizeGames(environment.shortcuts).games)

GOGGames == Range(GOGSynchronizeGames(environment.gog).games)

\* the directory that holds the shortcut file path
DirectoryOf(path) ==
    CHOOSE dirPath \in DOMAIN environment.shortcuts.dirs :
        \E entry \in Range(environment.shortcuts.dirs[dirPath].entries) :
            /\ entry.kind = "file"
            /\ join(dirPath, Join(entry.base) \o Join(entry.ext)) = path

\* C16: every launchGame call on a game of the Shortcuts scanner runs a
\* shell command whose working directory is the directory of the shortcut
\* file.
C16_ShortcutLaunchedFromItsDirectory ==
    \A i \in CallsOf("launchGame") :
        calls[i].game \in ShortcutGames =>
            LET execs == EventsOf("execAsync", calls[i].events)
            IN  /\ execs # <<>>
                /\ \A k \in DOMAIN execs : execs[k].cwd = DirectoryOf(calls[i].game.launchCommand)
\* the shortcut files of the games that uninstallGame was called on with a
\* command that succeeded
UninstalledShortcuts ==
    {calls[i].game.launchCommand :
        i \in {j \in CallsOf("uninstallGame") : calls[j].game \in ShortcutGames /\ calls[j].succeeds}}

\* C17: after uninstallGame calls on games of the Shortcuts scanner, the
\* shortcut files of those games, and no other files, are gone from the
\* disk.
C17_UninstallDeletesShortcut ==
    disk = ShortcutFiles(environment.shortcuts) \ UninstalledShortcuts
\* the command lines that run the Galaxy client client with the arguments
\* args, directly or through "start"
ClientCommands(client, args) ==
    {"\"" \o client \o "\" " \o args,
     "start \"\" \"" \o client \o "\" " \o args}

\* C18: every launchGame call on a game of the GOG scanner runs a shell
\* command that starts the located Galaxy client executable with the game's
\* run-game arguments.
C18_GOGLaunchedThroughClient ==
    \A i \in CallsOf("launchGame") :
        calls[i].game \in GOGGames =>
            LET execs == EventsOf("execAsync", calls[i].events)
            IN  /\ execs # <<>>
                /\ \A k \in DOMAIN execs :
                      execs[k].command \in ClientCommands(environment.gog.client,
                                                          calls[i].game.launchCommand)
(***************************************************************************)
(* Properties of the Playnite scanner (SpecScan).                          *)
(***************************************************************************)
\* the library entries game g may have been made from: the entries of the
\* exported snapshot and the per-title files that parse, with g's id and
\* title
SnapshotEntriesOf(g) ==
    {e \in Range(environment.snapshot) : e.Id = g.id /\ e.Name = g.title}

StoreEntriesOf(g) ==
    {f \in Range(environment.gameFiles) : f.parses /\ f.Id = g.id /\ f.Name = g.title}

\* C19: after a Playnite scan every emitted game has a library entry, in
\* the snapshot or in the per-title store, that is installed and not
\* hidden.
C19_InstalledNotHidden ==
    outcome[PlaynitePlatformName] # "idle" =>
        \A g \in Range(SynchronizedGames[PlaynitePlatformName]) :
            \E e \in SnapshotEntriesOf(g) \cup StoreEntriesOf(g) : e.IsInstalled /\ ~e.Hidden
\* the emitted games that were made from a file of the per-title store
GamesFromStore ==
    {g \in Range(SynchronizedGames[PlaynitePlatformName]) : StoreEntriesOf(g) # {}}

\* reading the snapshot file fails: it does not parse, an element of its
\* array is no object, or an entry that is to be emitted names an icon while
\* there is no Playnite data path
SnapshotReadFails ==
    \/ ~environment.snapshotParses
    \/ \E e \in Range(environment.snapshot) : ~e.object
    \/ /\ ~environment.dataPath
       /\ \E e \in Range(environment.snapshot) :
             e.IsInstalled /\ ~e.Hidden /\ e.Icon \notin {Undefined, ""}

\* C20 as stated: after a Playnite scan of an installation whose snapshot
\* file exists, no emitted game comes from the per-title store.
C20_StoreOnlyWithoutSnapshot ==
    (outcome[PlaynitePlatformName] # "idle" /\ environment.snapshotExists) =>
        GamesFromStore = {}

\* C20, amended: after a Playnite scan, games come from the per-title store
\* only if no snapshot file exists or reading the snapshot file failed; when
\* the snapshot exists and is read, every emitted game is one of its entries.
C20_StoreOnlyWithoutReadableSnapshot ==
    outcome[PlaynitePlatformName] # "idle" =>
        /\ GamesFromStore # {} => (~environment.snapshotExists \/ SnapshotReadFails)
        /\ (environment.snapshotExists /\ ~SnapshotReadFails) =>
              /\ outcome[PlaynitePlatformName] = "returned"
              /\ \A g \in Range(SynchronizedGames[PlaynitePlatformName]) : SnapshotEntriesOf(g) # {}

\* a scan that emits the games of a snapshot while the per-title store holds
\* an installed title that is not emitted
C20_Witness ==
    /\ outcome[PlaynitePlatformName] = "returned"
    /\ environment.snapshotExists
    /\ ~SnapshotReadFails
    /\ environment.gamesPathExists
    /\ \E f \in Range(environment.gameFiles) : f.parses /\ f.IsInstalled
    /\ SynchronizedGames[PlaynitePlatformName] # <<>>
    /\ GamesFromStore = {}
(***************************************************************************)
(* Properties of the platform flags (specification Spec).                  *)
(***************************************************************************)
\* C21: when loadGames has finished, the Ubisoft Connect scanner has been
\* invoked exactly if enableUbisoft is on and the EA app scanner exactly if
\* enableEAApp is on, and the games an invoked scanner left are part of the
\* merged list.
C21_FlagsSelectUbisoftAndEa ==
    pc = "done" =>
        /\ preferences.enableUbisoft <=> outcome[UbisoftPlatformName] # "idle"
        /\ preferences.enableEAApp <=> outcome[EaPlatformName] # "idle"
        /\ \A e \in {UbisoftPlatformName, EaPlatformName} :
              outcome[e] = "returned" =>
                  \A g \in Range(SynchronizedGames[e]) : g \in Range(allGames)
(***************************************************************************)
(* Properties of the EA app scanner (SpecScan).                            *)
(***************************************************************************)
\* the vendor spellings, in lower case
VendorSpellings ==
    {<<"e","l","e","c","t","r","o","n","i","c"," ","a","r","t","s">>,
     <<"e","a"," ","g","a","m","e","s">>,
     <<"e","a"," ","s","p","o","r","t","s">>,
     <<"e","a"," ">>}

\* the Publisher value of the registry key was read and holds a vendor
\* spelling, in any case
AttributedToVendor(key) ==
    /\ ~key.Publisher.throws
    /\ key.Publisher.match.some
    /\ \E spelling \in VendorSpellings : includes(toLowerCase(key.Publisher.match.val), spelling)

\* C22: after a scan of the EA app scanner, every emitted game is the entry
\* of a registry key whose Publisher value was read and names the vendor.
C22_OnlyAttributedEntries ==
    outcome[EaPlatformName] # "idle" =>
        \A g \in Range(SynchronizedGames[EaPlatformName]) :
            \E key \in Range(environment.keys) :
                /\ g.id = "ea-" \o Join(key.keyId)
                /\ AttributedToVendor(key)
(***************************************************************************)
(* Properties of the Xbox setup command (specification SpecSetup).         *)
(***************************************************************************)
\* the redirect URL is refused: empty, foreign, not a URL, with an error
\* parameter, or without a code
UrlRefused(redirectUrl) ==
    \/ redirectUrl.blank
    \/ ~redirectUrl.redirect
    \/ ~redirectUrl.wellFormed
    \/ redirectUrl.error \notin {Undefined, ""}
    \/ redirectUrl.code \in {Undefined, ""}

\* a request fails: a network error, an HTTP error, or a body that is not
\* the JSON expected
RequestFails(net, request) ==
    \/ net[request].kind # "json"
    \/ request \in {"xbox", "xsts"} /\ net[request].json.DisplayClaims = None

\* some step of a processToken call on input fails
StepFails(input) ==
    \/ UrlRefused(input.redirectUrl)
    \/ \E request \in {"token", "xbox", "xsts", "titles"} : RequestFails(input.net, request)
    \/ input.local.writeThrows

\* the state a processToken call leaves: that of its last setState
StateLeft(call) ==
    LET states == EventsOf("setState", call.events)
    IN  states[Len(states)].state

\* C23: every processToken call in which a step fails leaves the flow in
\* step "status" with a non-empty error message; no processToken call
\* leaves the flow in step "processing"; a processToken call leaves the
\* flow in step "complete" only if no step failed.
C23_FailureResetsFlow ==
    /\ \A i \in CallsOf("processToken") :
          LET left == StateLeft(calls[i])
          IN  /\ StepFails(calls[i].input) =>
                    /\ left.step = "status"
                    /\ left.error \notin {Undefined, ""}
              /\ left.step # "processing"
              /\ left.step = "complete" => ~StepFails(calls[i].input)
    /\ setupState.step # "processing"

\* a processToken call whose request for the titles failed, after the
\* authentication succeeded, has left the flow in "status" with the error
C23_Witness ==
    /\ calls # <<>>
    /\ calls[Len(calls)].op = "processToken"
    /\ ~UrlRefused(calls[Len(calls)].input.redirectUrl)
    /\ calls[Len(calls)].input.net.titles.kind = "http"
    /\ setupState.step = "status"
    /\ setupState.error = "HTTP 500: {\"error\":\"invalid_grant\"}"
\* the places, among the events of a call, of the cache writes under key
WritesOf(call, key) ==
    {i \in DOMAIN call.events :
        call.events[i].kind = "cache.set" /\ call.events[i].key = key}

\* the places of all the cache writes of a call
CacheWritesOf(call) == {i \in DOMAIN call.events : call.events[i].kind = "cache.set"}

\* the list of owned identifiers and the metadata table are written at most
\* once each, both or neither, after every other cache write of the call,
\* and the keys of the table are the identifiers of the list
ListAndTableWrittenTogether(call) ==
    LET lists == WritesOf(call, "xbox-owned-games-pfns")
        tables == WritesOf(call, "xbox-game-details")
    IN  /\ Cardinality(lists) <= 1
        /\ Cardinality(tables) <= 1
        /\ Cardinality(lists) = Cardinality(tables)
        /\ \A l \in lists, t \in tables :
              /\ \A w \in CacheWritesOf(call) \ {l, t} : w < l /\ w < t
              /\ DOMAIN call.events[t].value = Range(call.events[l].value)

\* the call sets step "complete" only after it wrote the list and the table
CompleteAfterWrites(call) ==
    \A i \in DOMAIN call.events :
        call.events[i].kind = "setState" /\ call.events[i].state.step = "complete" =>
            /\ \E l \in WritesOf(call, "xbox-owned-games-pfns") : l < i
            /\ \E t \in WritesOf(call, "xbox-game-details") : t < i

\* C24: in every processToken call the list of owned identifiers and the
\* metadata table are written at most once each, both or neither, as the
\* last cache writes, the keys of the table being the identifiers of the
\* list; step "complete" is set only after both writes; and a call that
\* does not end in step "complete" writes nothing to the cache.
C24_CacheWrittenOnlyBySuccess ==
    \A i \in CallsOf("processToken") :
        /\ ListAndTableWrittenTogether(calls[i])
        /\ CompleteAfterWrites(calls[i])
        /\ StateLeft(calls[i]).step # "complete" => CacheWritesOf(calls[i]) = {}

\* the same without its last part (holds)
C24_Writes ==
    \A i \in CallsOf("processToken") :
        /\ ListAndTableWrittenTogether(calls[i])
        /\ CompleteAfterWrites(calls[i])
\* the list of the scanner e if it returned, the empty list otherwise
Kept(e) == IF outcome[e] = "returned" THEN SynchronizedGames[e] ELSE <<>>

\* the lists of the scanners that returned, one after the other in the
\* order Steam, Epic Games, GOG, Playnite, Xbox, Shortcuts
InScannerOrder ==
    Kept("Steam") \o Kept("Epic Games") \o Kept("GOG Galaxy") \o Kept("Playnite")
        \o Kept("Xbox") \o Kept("Shortcut")

\* the sum of the lengths of those lists
KeptCount ==
    Len(Kept("Steam")) + Len(Kept("Epic Games")) + Len(Kept("GOG Galaxy"))
        + Len(Kept("Playnite")) + Len(Kept("Xbox")) + Len(Kept("Shortcut"))

\* C25: while the loop runs and until the ordering policy is applied, and
\* in the list returned under sortOrder = lastPlayed, the merged list is the
\* concatenation, in the order Steam, Epic Games, GOG, Playnite, Xbox,
\* Shortcuts, of the lists of the scanners that did not raise; the "Games
\* loaded" notification reports the sum of the lengths of those lists.
C25_MergedInScannerOrder ==
    /\ pc = "sync" => allGames = InScannerOrder
    /\ pc = "done" /\ preferences.sortOrder = "lastPlayed" => allGames = InScannerOrder
    /\ pc = "done" =>
          /\ toasts # <<>>
          /\ toasts[Len(toasts)] =
                Toast("Success", "Games loaded", "Found " \o ToString(KeptCount) \o " games")
          /\ Len(allGames) = KeptCount

\* a finished scan under lastPlayed in which Playnite and Xbox both found
\* games, a third scanner raised, and another one found games too
C25_Witness ==
    /\ pc = "done"
    /\ preferences.sortOrder = "lastPlayed"
    /\ Kept("Playnite") # <<>>
    /\ Kept("Xbox") # <<>>
    /\ \E e \in Range(syncEngines) : outcome[e] = "raised"
    /\ \E e \in Range(syncEngines) \ {"Playnite", "Xbox"} : Kept(e) # <<>>
(***************************************************************************)
(* Properties of overlapping cycles (specification SpecOverlap).           *)
(***************************************************************************)
\* C26: every scan cycle that has finished holds the games the Xbox scanner
\* produces when it runs alone on the same machine, and every listing of
\* the setup command that has finished holds the local packages of the
\* machine, whatever other cycles ran at the same time.
C26_CyclesDoNotInterfere ==
    \A c \in DOMAIN cycles :
        cycles[c].at = "done" =>
            IF cycles[c].kind = "scan"
            THEN cycles[c].games = XboxSynchronizeGames(environment).games
            ELSE cycles[c].localApps = environment.localApps
(***************************************************************************)
(* Termination of loadGames (specification SpecLive).                      *)
(***************************************************************************)
\* the "Games loaded" notification has been shown
GamesLoaded ==
    /\ pc = "done"
    /\ toasts # <<>>
    /\ toasts[Len(toasts)].title = "Games loaded"

\* C27: every scan cycle eventually shows the "Games loaded" notification,
\* whichever scanners are enabled and whichever of their external calls
\* fail or never return.
C27_EveryCycleFinishes == <>GamesLoaded
(***************************************************************************)
(* Properties of the Steam scanner across library folders (SpecScan).      *)
(***************************************************************************)
\* the manifest files in the order findAllGames meets them: library folder
\* after library folder, the default folder first
ManifestsInOrder(env) == Concat(env.libraries)

\* the manifest file can yield a game: it parses, is installed and is a game
CanYield(file) ==
    /\ parseAppManifest(file).some
    /\ isGameInstalled(parseAppManifest(file).val)
    /\ isActualGame(parseAppManifest(file).val)

\* C28: the Steam scanner's result never holds two games with the same id;
\* each game is the one of the first manifest file, in the order default
\* folder first, that has its appid and can yield a game, also when an
\* appid has manifests in several library folders and when a folder is
\* scanned twice.
C28_OneGamePerAppid ==
    outcome[SteamPlatformName] = "returned" =>
        LET games == SynchronizedGames[SteamPlatformName]
            files == ManifestsInOrder(environment)
        IN  /\ \A i, j \in DOMAIN games : games[i].id = games[j].id => i = j
            /\ \A i \in DOMAIN games :
                  \E k \in DOMAIN files :
                      /\ CanYield(files[k])
                      /\ games[i] = createGameFromManifest(parseAppManifest(files[k]).val)
                      /\ \A m \in 1..(k - 1) :
                            CanYield(files[m]) => files[m].appid # files[k].appid

\* two library folders with a manifest of appid 440 each, under different
\* names, of which the scan has emitted the first only
C28_Witness ==
    /\ outcome[SteamPlatformName] = "returned"
    /\ Len(environment.libraries) = 2
    /\ environment.libraries[1] = <<ManifestFile(TRUE, "440", Some(Portal), Some(<<"4">>))>>
    /\ environment.libraries[2] = <<ManifestFile(TRUE, "440", Some(Doom), Some(<<"4">>))>>
    /\ Len(SynchronizedGames[SteamPlatformName]) = 1
    /\ SynchronizedGames[SteamPlatformName][1].title = Portal

\* a library folder scanned twice, of which the scan has emitted one game
C28_WitnessTwice ==
    /\ outcome[SteamPlatformName] = "returned"
    /\ Len(environment.libraries) = 2
    /\ environment.libraries[1] = environment.libraries[2]
    /\ Len(SynchronizedGames[SteamPlatformName]) = 1
(***************************************************************************)
(* Properties of the sources of a Playnite scan (SpecScan).                *)
(***************************************************************************)
\* the emitted games that were made from an entry of the snapshot
GamesFromSnapshot ==
    {g \in Range(SynchronizedGames[PlaynitePlatformName]) : SnapshotEntriesOf(g) # {}}

\* C29: after a Playnite scan SynchronizedGames never holds games of the
\* snapshot together with games of the per-title store, and when
\* SynchronizeGames has raised SynchronizedGames is empty.
C29_OneSourcePerScan ==
    outcome[PlaynitePlatformName] # "idle" =>
        /\ GamesFromSnapshot = {} \/ GamesFromStore = {}
        /\ outcome[PlaynitePlatformName] = "raised" =>
              SynchronizedGames[PlaynitePlatformName] = <<>>
(***************************************************************************)
(* Properties of the ids of the Shortcuts scanner (SpecScan).              *)
(***************************************************************************)
\* C30: after a Shortcuts scan no two games of the result have the same id,
\* whatever the five shortcut directories are, two equal paths and a path
\* inside another included; and the id of every game is "shortcut-" followed
\* by the base64 encoding of the game's launchCommand, so that the path
\* decoded from the id is the launchCommand.
C30_ShortcutIdsDistinct ==
    outcome[ShortcutPlatformName] # "idle" =>
        LET games == SynchronizedGames[ShortcutPlatformName]
        IN  /\ \A i, j \in DOMAIN games : games[i].id = games[j].id => i = j
            /\ \A i \in DOMAIN games :
                  games[i].id = "shortcut-" \o base64(games[i].launchCommand)

\* the second half alone (holds)
C30_IdEncodesLaunchCommand ==
    outcome[ShortcutPlatformName] # "idle" =>
        \A g \in Range(SynchronizedGames[ShortcutPlatformName]) :
            g.id = "shortcut-" \o base64(g.launchCommand)
====
